---- MODULE Spec2Model ----
(***************************************************************************)
(* State-machine model of src/general/ReadRoutinesModifiedCloud.py:        *)
(* GetInputs (stencil extraction) and ReadMITGCM (temporal split, region   *)
(* assembly, accumulation, normalisation).                                  *)
(*                                                                         *)
(* Arrays are modelled by provenance: a block of samples is the index      *)
(* expression the code built it with (array, time position, slices), and   *)
(* the operators below resolve such an expression to the original          *)
(* (time, z, y, x) indices of the dataset each element is read from.       *)
(* All indices are 0-based as in the source; TLA+ sequences are 1-based,   *)
(* so element i of a Python list is s[i + 1].                              *)
(***************************************************************************)
EXTENDS Integers, Sequences, FiniteSets, TLC

VARIABLES
    run_vars,               \* the run_vars dictionary
    trainval_split_ratio,   \* numerator of the ratio over RatioDen
    valtest_split_ratio,    \* numerator of the ratio over RatioDen
    x_size, y_size, z_size, \* ds.dims of the dataset
    T_size,                 \* length of the dataset's time axis
    pc,                     \* position in ReadMITGCM
    err,                    \* the exception that ended the run, "" if none
    t,                      \* loop variable of the three sample loops
    region,                 \* region block (1, 2, 3) executed next in the loop body
    trainval_range, valtest_range, test_range,
    sample_times,           \* list of (t, t + 1) pairs
    cur,                    \* inputs_k, outputs_k_DelT, ... of the last region block
    acc,                    \* the accumulators inputs_tr, outputs_tr_DelT, ...
    bound,                  \* names of the accumulators that are bound
    nrm,                    \* state of the numeric normalisation runs
    save_arrays,            \* argument save_arrays
    plot_histograms,        \* argument plot_histograms
    arrays,                 \* the pools once shuffled, and their normalised forms
    files,                  \* the files written so far
    ret                     \* the tuple returned, <<>> before the return

vars == <<run_vars, trainval_split_ratio, valtest_split_ratio, x_size, y_size,
          z_size, T_size, pc, err, t, region, trainval_range, valtest_range,
          test_range, sample_times, cur, acc, bound, nrm, save_arrays,
          plot_histograms, arrays, files, ret>>

\* the arguments and the state of the part of ReadMITGCM after the loops
after_loops == <<save_arrays, plot_histograms, arrays, files, ret>>

(***************************************************************************)
(* Bounds of the model.                                                    *)
(***************************************************************************)
MaxX == 5
MaxY == 17
MaxZ == 32
MaxStep == 2
RatioDen == 100000
MaxPolyDegree == 3
MaxPolyCols == 12
MaxDimension == 4

(***************************************************************************)
(* Program constants.                                                      *)
(***************************************************************************)
subsample_rate == 200
start == 0
data_end_index == 7200
x_lw_1 == 1
y_lw_1 == 1
z_lw_1 == 1
x_lw_2 == 1
x_up_2 == 2
y_lw_2 == 1
y_up_2 == 15
z_lw_2 == 1
z_up_2 == 31
y_lw_3 == 1
y_up_3 == 15
z_lw_3 == 1
z_up_3 == 31

x_up_1 == x_size - 2
y_up_1 == y_size - 3
z_up_1 == z_size - 1
x_lw_3 == x_size - 3
x_up_3 == x_size - 1

(***************************************************************************)
(* Python and numpy primitives.                                            *)
(***************************************************************************)
Min(a, b) == IF a < b THEN a ELSE b
Max(a, b) == IF a > b THEN a ELSE b

\* a range that also yields its stop value
PyRangeInclusive(a, b, s) ==
    LET n == IF b >= a THEN (b - a) \div s + 1 ELSE 0
    IN  [i \in 1..n |-> a + (i - 1) * s]

\* range(a, b, s) for s > 0, as a list
PyRange(a, b, s) ==
    LET n == IF b > a THEN (b - a + s - 1) \div s ELSE 0
    IN  [i \in 1..n |-> a + (i - 1) * s]

\* a slice bound normalised against a length: negative bounds count from the end
PyBound(i, n) == IF i < 0 THEN Max(i + n, 0) ELSE Min(i, n)

\* s[lo:hi]
PySlice(s, lo, hi) ==
    LET a == PyBound(lo, Len(s))
        b == PyBound(hi, Len(s))
    IN  IF a < b THEN SubSeq(s, a + 1, b) ELSE <<>>

\* int(data_end_index * ratio), the ratio being num / RatioDen
SplitIndex(num) == (data_end_index * num) \div RatioDen

\* np.array(sample_times).flatten()
Flatten(pairs) ==
    [p \in 1..(2 * Len(pairs)) |-> pairs[(p + 1) \div 2][2 - (p % 2)]]

\* np.unravel_index(r, (nz, ny, nx)): the row-major position of flat index r
Unravel(r, ny, nx) == <<r \div (ny * nx), (r \div nx) % ny, r % nx>>

(***************************************************************************)
(* The dataset's axes, as lists of original grid indices.                  *)
(***************************************************************************)
Iota(n) == [i \in 1..Max(n, 0) |-> i - 1]

\* the field handed over unshifted
NoRoll(s) == s

\* xr.concat([a[..., -1:], a[..., :-1]]): the East-most column moved to the West
RollEast(s) == PySlice(s, -1, Len(s)) \o PySlice(s, 0, -1)

\* xr.concat([a[..., 1:], a[..., :1]]): the West-most column moved to the East
RollWest(s) == PySlice(s, 1, Len(s)) \o PySlice(s, 0, 1)

\* X axis of da_T (k = 1), da_T2 (k = 2), da_T3 (k = 3), and likewise of the
\* other fields, of da_lon and of density: position -> original column
XIndex(k) ==
    IF k = 2 THEN RollEast(Iota(x_size))
    ELSE IF k = 3 THEN RollWest(Iota(x_size))
    ELSE Iota(x_size)

\* Y axis of a field.  da_V is the sum of da_V_tmp[:, :, :-1, :] and
\* da_V_tmp[:, :, 1:, :], which xarray aligns on the Yp1 labels they share
\* (labels 1 .. y_size - 1), so position p of da_V holds face p + 1.
YIndex(name) ==
    IF name = "da_V" THEN PySlice(Iota(y_size + 1), 1, -1) ELSE Iota(y_size)

ZIndex == Iota(z_size)

\* ds.isel(T=flat)[p]: the original time index held at position p of the
\* subsampled dataset; density and da_clim_T are not subsampled.
FlatTimes == Flatten(sample_times)
Subsampled(name) == name \notin {"density", "da_clim_T"}
TimeOf(name, p) == IF Subsampled(name) THEN FlatTimes[p + 1] ELSE p

(***************************************************************************)
(* The three regions.                                                      *)
(***************************************************************************)
Regions == {1, 2, 3}

Bounds(k) ==
    IF k = 1 THEN
        [x_lw |-> x_lw_1, x_up |-> x_up_1, y_lw |-> y_lw_1, y_up |-> y_up_1,
         z_lw |-> z_lw_1, z_up |-> z_up_1]
    ELSE IF k = 2 THEN
        [x_lw |-> x_lw_2, x_up |-> x_up_2, y_lw |-> y_lw_2, y_up |-> y_up_2,
         z_lw |-> z_lw_2, z_up |-> z_up_2]
    ELSE
        [x_lw |-> x_lw_3, x_up |-> x_up_3, y_lw |-> y_lw_3, y_up |-> y_up_3,
         z_lw |-> z_lw_3, z_up |-> z_up_3]

(***************************************************************************)
(* GetInputs.  An array is [err, shape, f, wz, width]: the exception       *)
(* raised while building it ("" if none), its (z, y, x) sample shape, the  *)
(* field it holds, the depth of its window and its number of columns.      *)
(* Every definition is written so that its cost is linear when evaluated   *)
(* without caching.                                                        *)
(***************************************************************************)
Raise(e) == [err |-> e, shape |-> <<0, 0, 0>>, f |-> "", wz |-> 0, width |-> 0]

\* the (1, 3, 3) window used whatever the stencil rank
view_as_windows_2d(f, sh, wz) ==
    IF sh[1] < 1 \/ sh[2] < 3 \/ sh[3] < 3 THEN Raise("ValueError")
    ELSE [err |-> "", shape |-> <<sh[1], sh[2] - 2, sh[3] - 2>>,
          f |-> f, wz |-> 1, width |-> 1 * 3 * 3]

\* view_as_windows(arr, (wz, 3, 3), 1) followed by
\* tmp.reshape((tmp.shape[0], tmp.shape[1], tmp.shape[2], -1))
view_as_windows(f, sh, wz) ==
    IF sh[1] < wz \/ sh[2] < 3 \/ sh[3] < 3 THEN Raise("ValueError")
    ELSE [err |-> "", shape |-> <<sh[1] - wz + 1, sh[2] - 2, sh[3] - 2>>,
          f |-> f, wz |-> wz, width |-> wz * 3 * 3]

\* the Eta block: 2-d windows tiled over z_subsize layers
EtaBlock(Eta, z_subsize) ==
    IF Eta[1] < 3 \/ Eta[2] < 3 THEN Raise("ValueError")
    ELSE [err |-> "", shape |-> <<z_subsize, Eta[1] - 2, Eta[2] - 2>>,
          f |-> "Eta", wz |-> 1, width |-> 3 * 3]

\* a coordinate column tiled to the given shape
CoordBlock(f, sh) == [err |-> "", shape |-> sh, f |-> f, wz |-> 0, width |-> 1]

Opt(flag, s) == IF flag THEN s ELSE <<>>

\* the arrays GetInputs concatenates along the last axis, in order
Parts(rv, Temp, Sal, U, V, Kwx, Kwy, Kwz, dns, Eta, lat, lon, depth) ==
    LET x_subsize == Temp[3] - 2
        y_subsize == Temp[2] - 2
        wz        == IF rv.dimension = 3 THEN 3 ELSE 1
        z_subsize == IF rv.dimension = 2 THEN Temp[1] ELSE Temp[1] - 2
    IN  <<view_as_windows("Temp", Temp, wz)>>
        \o Opt(rv.sal, <<view_as_windows("Sal", Sal, wz)>>)
        \o Opt(rv.current, <<view_as_windows("U", U, wz),
                             view_as_windows("V", V, wz)>>)
        \o Opt(rv.bolus_vel, <<view_as_windows("Kwx", Kwx, wz),
                               view_as_windows("Kwy", Kwy, wz),
                               view_as_windows("Kwz", Kwz, wz)>>)
        \o Opt(rv.density, <<view_as_windows("dns", dns, wz)>>)
        \o Opt(rv.eta, <<EtaBlock(Eta, z_subsize)>>)
        \o Opt(rv.lat, <<CoordBlock("lat", <<z_subsize, lat, x_subsize>>)>>)
        \o Opt(rv.lon, <<CoordBlock("lon", <<z_subsize, y_subsize, lon>>)>>)
        \o Opt(rv.dep, <<CoordBlock("dep", <<depth, y_subsize, x_subsize>>)>>)

\* the first array that cannot be built or appended: np.concatenate raises
\* when the leading axes differ (0: none)
FirstBad(parts) ==
    LET bad == {i \in 1..Len(parts) :
                   parts[i].err # "" \/ parts[i].shape # parts[1].shape}
    IN  IF bad = {} THEN 0 ELSE CHOOSE i \in bad : \A j \in bad : i <= j

\* inputs.shape[-1] after the concatenations
RECURSIVE SumWidth(_, _)
SumWidth(parts, n) ==
    IF n = 0 THEN 0 ELSE SumWidth(parts, n - 1) + parts[n].width

\* itertools.combinations(range(n), k), as a set of index sets
RECURSIVE Combinations(_, _)
Combinations(n, k) ==
    IF k = 0 THEN {{}}
    ELSE IF n < k THEN {}
    ELSE Combinations(n - 1, k)
         \cup {s \cup {n} : s \in Combinations(n - 1, k - 1)}

\* PolynomialFeatures(degree, interaction_only=True, include_bias=False):
\* one output column per combination of 1 .. degree distinct input columns
PolynomialFeatures(n, degree) ==
    UNION {Combinations(n, k) : k \in 1..degree}

\* a reshape that folds the longitude axis into the feature axis
ReshapeRowsFoldX(sh, width, poly_degree) ==
    [err |-> "", shape |-> sh, nrows |-> sh[1] * sh[2],
     ncols |-> IF poly_degree > 1
               THEN Cardinality(PolynomialFeatures(width * sh[3], poly_degree))
               ELSE width * sh[3]]

\* inputs.reshape((z_subsize * y_subsize * x_subsize, inputs.shape[-1])) and
\* the polynomial expansion
ReshapeRows(sh, width, poly_degree) ==
    [err |-> "", shape |-> sh, nrows |-> sh[1] * sh[2] * sh[3],
     ncols |-> IF poly_degree > 1
               THEN Cardinality(PolynomialFeatures(width, poly_degree))
               ELSE width]

NoArray(e) == [err |-> e, shape |-> <<0, 0, 0>>, nrows |-> 0, ncols |-> 0]

\* a stencil rank that is neither 2 nor 3 handled like rank 2
GetInputsAnyRank(rv, Temp, Sal, U, V, Kwx, Kwy, Kwz, dns, Eta, lat, lon, depth) ==
    ReshapeRows(<<Temp[1], Temp[2] - 2, Temp[3] - 2>>,
                SumWidth(Parts(rv, Temp, Sal, U, V, Kwx, Kwy, Kwz, dns, Eta,
                               lat, lon, depth),
                         Len(Parts(rv, Temp, Sal, U, V, Kwx, Kwy, Kwz, dns,
                                   Eta, lat, lon, depth))),
                rv.poly_degree)

\* Temp .. dns are the shapes (z, y, x) of the field arguments, Eta the shape
\* (y, x), lat, lon and depth the lengths of the coordinate arguments.
\* With a dimension that is neither 2 nor 3 neither inputs nor z_subsize is
\* bound, and the first statement that reads one of them raises.
GetInputs(rv, Temp, Sal, U, V, Kwx, Kwy, Kwz, dns, Eta, lat, lon, depth) ==
    LET parts == Parts(rv, Temp, Sal, U, V, Kwx, Kwy, Kwz, dns, Eta, lat,
                       lon, depth)
        bad   == FirstBad(parts)
    IN  IF rv.dimension \notin {2, 3}
        THEN NoArray(IF rv.eta /\ (Eta[1] < 3 \/ Eta[2] < 3)
                     THEN "ValueError" ELSE "UnboundLocalError")
        ELSE IF bad # 0
        THEN NoArray(IF parts[bad].err # "" THEN parts[bad].err
                     ELSE "ValueError")
        ELSE ReshapeRows(parts[1].shape, SumWidth(parts, Len(parts)),
                         rv.poly_degree)

(***************************************************************************)
(* ReadMITGCM: the slices handed to GetInputs and the target slices.       *)
(***************************************************************************)
\* number of elements a[lo:hi] selects on an axis
SliceLen(axis, lo, hi) == Len(PySlice(axis, lo, hi))

\* shape of field[t, z0:z1, y0:y1, x0:x1] for the field arrays of region k
FieldShape(name, k, z, y, x) ==
    <<SliceLen(ZIndex, z[1], z[2]),
      SliceLen(YIndex(name), y[1], y[2]),
      SliceLen(XIndex(k), x[1], x[2])>>

\* halo-inclusive slices of the GetInputs call of region k
InputZ(k, dimension) ==
    IF dimension = 2 THEN <<Bounds(k).z_lw, Bounds(k).z_up>>
    ELSE <<Bounds(k).z_lw - 1, Bounds(k).z_up + 1>>
InputY(k) == <<Bounds(k).y_lw - 1, Bounds(k).y_up + 1>>
InputX(k) == <<Bounds(k).x_lw - 1, Bounds(k).x_up + 1>>

\* slices of the targets of region k (no halo)
TargetZ(k) == <<Bounds(k).z_lw, Bounds(k).z_up>>
TargetY(k) == <<Bounds(k).y_lw, Bounds(k).y_up>>
TargetX(k) == <<Bounds(k).x_lw, Bounds(k).x_up>>

\* which X axis the targets of region k are sliced on: da_T and da_clim_T,
\* the unshifted arrays, in all three regions
TargetAxis(k) == 1

\* the GetInputs call of region k
CallGetInputs(k) ==
    LET d  == run_vars.dimension
        sh(name) == FieldShape(name, k, InputZ(k, d), InputY(k), InputX(k))
    IN  GetInputs(run_vars, sh("da_T"), sh("da_S"), sh("da_U"), sh("da_V"),
                  sh("da_Kwx"), sh("da_Kwy"), sh("da_Kwz"), sh("density"),
                  <<SliceLen(YIndex("da_Eta"), InputY(k)[1], InputY(k)[2]),
                    SliceLen(XIndex(k), InputX(k)[1], InputX(k)[2])>>,
                  SliceLen(YIndex("da_lat"), TargetY(k)[1], TargetY(k)[2]),
                  SliceLen(XIndex(k), TargetX(k)[1], TargetX(k)[2]),
                  SliceLen(ZIndex, TargetZ(k)[1], TargetZ(k)[2]))

\* rows of da_T[.., z_lw:z_up, y_lw:y_up, x_lw:x_up].data.reshape((-1, 1))
TargetRows(k) ==
    SliceLen(ZIndex, TargetZ(k)[1], TargetZ(k)[2])
    * SliceLen(YIndex("da_T"), TargetY(k)[1], TargetY(k)[2])
    * SliceLen(XIndex(TargetAxis(k)), TargetX(k)[1], TargetX(k)[2])

(***************************************************************************)
(* Blocks and accumulators.  A block is the region and the time position   *)
(* it was built for, with its row and column counts.                       *)
(***************************************************************************)
Block(k, p, nrows, ncols) ==
    [reg |-> k, t |-> p, nrows |-> nrows, ncols |-> ncols]
NoBlock == Block(0, 0, 0, 0)

Splits == {"tr", "val", "te"}
Kinds(split) ==
    IF split = "te" THEN {"inputs", "DelT", "Temp"}
    ELSE {"inputs", "DelT", "Temp", "orig", "clim"}
AccNames == UNION {{<<kind, split>> : kind \in Kinds(split)} : split \in Splits}

\* the loop a time position belongs to
N_tr == Len(trainval_range)
N_val == Len(valtest_range)
N_te == Len(test_range)
First(split) ==
    IF split = "tr" THEN start
    ELSE IF split = "val" THEN N_tr
    ELSE N_tr + N_val
LoopOf(p) ==
    IF p < N_tr THEN "tr"
    ELSE IF p < N_tr + N_val THEN "val"
    ELSE IF p < N_tr + N_val + N_te THEN "te"
    ELSE "shuffle"

\* the time positions the targets are read at
TargetTime(p) == p + run_vars.StepSize
OrigTime(p) == p

(***************************************************************************)
(* Initial states: the arguments of one ReadMITGCM call.                   *)
(***************************************************************************)
Flags == [sal : BOOLEAN, current : BOOLEAN, bolus_vel : BOOLEAN,
          density : BOOLEAN, eta : BOOLEAN, lat : BOOLEAN, lon : BOOLEAN,
          dep : BOOLEAN]
NoFlags == [sal |-> FALSE, current |-> FALSE, bolus_vel |-> FALSE,
            density |-> FALSE, eta |-> FALSE, lat |-> FALSE, lon |-> FALSE,
            dep |-> FALSE]
AllFlags == [sal |-> TRUE, current |-> TRUE, bolus_vel |-> TRUE,
             density |-> TRUE, eta |-> TRUE, lat |-> TRUE, lon |-> TRUE,
             dep |-> TRUE]

RunVars(dimension, StepSize, poly_degree, f) ==
    [dimension |-> dimension, StepSize |-> StepSize, poly_degree |-> poly_degree,
     sal |-> f.sal, current |-> f.current, bolus_vel |-> f.bolus_vel,
     density |-> f.density, eta |-> f.eta, lat |-> f.lat, lon |-> f.lon,
     dep |-> f.dep]

\* number of columns before the polynomial expansion
LinearCols(rv) ==
    GetInputs([rv EXCEPT !.poly_degree = 1], <<3, 3, 3>>, <<3, 3, 3>>,
              <<3, 3, 3>>, <<3, 3, 3>>, <<3, 3, 3>>, <<3, 3, 3>>, <<3, 3, 3>>,
              <<3, 3, 3>>, <<3, 3>>, 1, 1,
              IF rv.dimension = 2 THEN 3 ELSE 1).ncols

DefaultRatios == <<70000, 90000>>
RatioNums == {2792, 8330, 50000, 70000, 75000, 90000}
RatioPairs == {r \in RatioNums \X RatioNums : r[1] < r[2]}

\* grids at least as large as the bounds of the wrap regions
Grids == (4..MaxX) \X ((y_up_2 + 1)..MaxY) \X ((z_up_2 + 1)..MaxZ)
\* the smallest of them, and one on which da_V covers the wrap regions' rows
SmallGrid == <<4, y_up_2 + 1, z_up_2 + 1>>
WideGrid == <<4, y_up_2 + 2, z_up_2 + 1>>

InitRun(rvs, ratios, grids, tsizes) ==
    /\ run_vars \in rvs
    /\ \E r \in ratios :
          /\ trainval_split_ratio = r[1]
          /\ valtest_split_ratio = r[2]
    /\ \E g \in grids : x_size = g[1] /\ y_size = g[2] /\ z_size = g[3]
    /\ T_size \in tsizes
    /\ pc = "start"
    /\ err = ""
    /\ t = 0
    /\ region = 1
    /\ trainval_range = <<>>
    /\ valtest_range = <<>>
    /\ test_range = <<>>
    /\ sample_times = <<>>
    /\ cur = [kind \in Kinds("tr") |-> NoBlock]
    /\ acc = [a \in AccNames |-> <<>>]
    /\ bound = {}
    /\ nrm = <<>>
    /\ arrays = <<>>
    /\ files = {}
    /\ ret = <<>>

(***************************************************************************)
(* ReadMITGCM: the actions.                                                *)
(***************************************************************************)
Fail(e) ==
    /\ pc' = "error"
    /\ err' = e
    /\ UNCHANGED <<t, region, cur, acc, bound>>

\* lines 216-243: the split indices, the three ranges, the (t, t + 1) pairs
\* and the subsampling of the dataset, which raises on an index past its end
DefineRanges ==
    /\ pc = "start"
    /\ LET trainval_split == SplitIndex(trainval_split_ratio)
           valtest_split  == SplitIndex(valtest_split_ratio)
           r1 == PyRange(start, trainval_split, subsample_rate)
           r2 == PyRange(trainval_split, valtest_split, subsample_rate)
           r3 == PyRange(valtest_split, data_end_index, subsample_rate)
           full_range == r1 \o r2 \o r3
           times == [i \in 1..Len(full_range) |->
                        <<full_range[i], full_range[i] + 1>>]
       IN  /\ trainval_range' = r1
           /\ valtest_range' = r2
           /\ test_range' = r3
           /\ sample_times' = times
           /\ IF \E i \in 1..Len(times) : times[i][2] >= T_size
              THEN /\ pc' = "error"
                   /\ err' = "IndexError"
                   /\ t' = t
              ELSE /\ pc' = IF Len(r1) > 0 THEN "tr"
                            ELSE IF Len(r2) > 0 THEN "val"
                            ELSE IF Len(r3) > 0 THEN "te"
                            ELSE "shuffle"
                   /\ err' = err
                   /\ t' = 0
    /\ UNCHANGED <<run_vars, trainval_split_ratio, valtest_split_ratio, x_size,
                   y_size, z_size, T_size, region, cur, acc, bound, nrm,
                   after_loops>>

\* the concatenation with its two operands exchanged: (blk, acc)
AccumulateInFront(split, k, blocks) ==
    LET names == {<<kind, split>> : kind \in Kinds(split)}
    IN  /\ acc' = [a \in AccNames |->
                      IF a \in names THEN <<blocks[a[1]]>> \o acc[a]
                      ELSE acc[a]]
        /\ bound' = bound \cup names
        /\ pc' = IF k = 3 THEN LoopOf(t + 1) ELSE pc
        /\ err' = err

\* the accumulation taking the plain assignment at the interior block of
\* every timestep
AccumulateOverwriting(split, k, blocks) ==
    LET names == {<<kind, split>> : kind \in Kinds(split)}
    IN  IF k = 1
        THEN /\ acc' = [a \in AccNames |->
                           IF a \in names THEN <<blocks[a[1]]>> ELSE acc[a]]
             /\ bound' = bound \cup names
             /\ pc' = pc
             /\ err' = err
        ELSE /\ acc' = [a \in AccNames |->
                           IF a \in names THEN Append(acc[a], blocks[a[1]])
                           ELSE acc[a]]
             /\ bound' = bound
             /\ pc' = IF k = 3 THEN LoopOf(t + 1) ELSE pc
             /\ err' = err

\* np.concatenate((acc, blk), axis=0) for every accumulator of the split, or
\* the plain assignment of the first block of the split
Accumulate(split, k, blocks) ==
    LET names == {<<kind, split>> : kind \in Kinds(split)}
        first == (k = 1 /\ t = First(split))
    IN  IF first
        THEN /\ acc' = [a \in AccNames |->
                           IF a \in names THEN <<blocks[a[1]]>> ELSE acc[a]]
             /\ bound' = bound \cup names
             /\ pc' = IF k = 3 THEN LoopOf(t + 1) ELSE pc
             /\ err' = err
        ELSE IF ~(names \subseteq bound)
        THEN /\ pc' = "error" /\ err' = "NameError"
             /\ UNCHANGED <<acc, bound>>
        ELSE IF \E a \in names :
                   /\ acc[a] # <<>>
                   /\ acc[a][1].ncols # blocks[a[1]].ncols
        THEN /\ pc' = "error" /\ err' = "ValueError"
             /\ UNCHANGED <<acc, bound>>
        ELSE /\ acc' = [a \in AccNames |->
                           IF a \in names THEN Append(acc[a], blocks[a[1]])
                           ELSE acc[a]]
             /\ bound' = bound
             /\ pc' = IF k = 3 THEN LoopOf(t + 1) ELSE pc
             /\ err' = err

\* one region block of one loop body
RegionBlock(split, k) ==
    /\ pc = split
    /\ region = k
    /\ LET known  == run_vars.dimension \in {2, 3}
           inputs == CallGetInputs(k)
           rows   == TargetRows(k)
           blocks == [kind \in Kinds("tr") |->
                        IF kind = "inputs"
                        THEN Block(k, t, inputs.nrows, inputs.ncols)
                        ELSE IF kind \in Kinds(split)
                        THEN Block(k, t, rows, 1)
                        ELSE NoBlock]
       IN  IF known /\ inputs.err # ""
           THEN Fail(inputs.err)
           ELSE IF TargetTime(t) >= Len(FlatTimes)
           THEN Fail("IndexError")
           ELSE IF ~known
           THEN Fail("NameError")
           ELSE /\ cur' = blocks
                /\ Accumulate(split, k, blocks)
                /\ region' = IF k = 3 THEN 1 ELSE k + 1
                /\ t' = IF k = 3 THEN t + 1 ELSE t
    /\ UNCHANGED <<run_vars, trainval_split_ratio, valtest_split_ratio, x_size,
                   y_size, z_size, T_size, trainval_range, valtest_range,
                   test_range, sample_times, nrm, after_loops>>

Train_Region1 == RegionBlock("tr", 1)
Train_Region2 == RegionBlock("tr", 2)
Train_Region3 == RegionBlock("tr", 3)
Val_Region1 == RegionBlock("val", 1)
Val_Region2 == RegionBlock("val", 2)
Val_Region3 == RegionBlock("val", 3)
Test_Region1 == RegionBlock("te", 1)
Test_Region2 == RegionBlock("te", 2)
Test_Region3 == RegionBlock("te", 3)

(***************************************************************************)
(* ReadMITGCM after the loops.  A pool is held by its shape and by the     *)
(* ordering its rows were last indexed with.                               *)
(***************************************************************************)
\* the row count of the block appended last
RowsOfLast(blocks) ==
    IF blocks = <<>> THEN 0 ELSE blocks[Len(blocks)].nrows

RECURSIVE Rows(_)
Rows(blocks) ==
    IF blocks = <<>> THEN 0 ELSE Head(blocks).nrows + Rows(Tail(blocks))

NormNames == {"norm_inputs", "norm_DelT", "norm_Temp"} \X Splits
Source(kind) ==
    IF kind = "norm_inputs" THEN "inputs"
    ELSE IF kind = "norm_DelT" THEN "DelT" ELSE "Temp"

LoopsUnchanged ==
    UNCHANGED <<run_vars, trainval_split_ratio, valtest_split_ratio, x_size,
                y_size, z_size, T_size, t, region, trainval_range,
                valtest_range, test_range, sample_times, cur, acc, bound, nrm,
                save_arrays, plot_histograms>>

\* np.random.seed(5), the three orderings, and every pool of a split indexed
\* with the ordering of the split, whose length is the row count of the
\* split's feature matrix
ShufflePools ==
    /\ pc = "shuffle"
    /\ IF ~(AccNames \subseteq bound)
       THEN /\ pc' = "error" /\ err' = "NameError"
            /\ arrays' = arrays
       ELSE IF \E a \in AccNames : Rows(acc[a]) < Rows(acc[<<"inputs", a[2]>>])
       THEN /\ pc' = "error" /\ err' = "IndexError"
            /\ arrays' = arrays
       ELSE /\ pc' = "plot" /\ err' = err
            /\ arrays' = [a \in AccNames |->
                              [nrows |-> Rows(acc[<<"inputs", a[2]>>]),
                               ncols |-> acc[a][1].ncols,
                               order |-> <<"ordering", a[2]>>]]
    /\ UNCHANGED <<files, ret>>
    /\ LoopsUnchanged

\* if plot_histograms: ... plt.savefig(figs_path + ...), figs_path being
\* bound nowhere
PlotHistograms ==
    /\ pc = "plot"
    /\ IF plot_histograms
       THEN pc' = "error" /\ err' = "NameError"
       ELSE pc' = "normalising" /\ err' = err
    /\ UNCHANGED <<arrays, files, ret>>
    /\ LoopsUnchanged

\* the normalisation of the feature columns and of the two targets: every
\* normalised array has the shape of the array it is computed from
NormaliseAll ==
    /\ pc = "normalising"
    /\ arrays' = [a \in AccNames \cup NormNames |->
                      IF a \in AccNames THEN arrays[a]
                      ELSE arrays[<<Source(a[1]), a[2]>>]]
    /\ pc' = "savez"
    /\ UNCHANGED <<err, files, ret>>
    /\ LoopsUnchanged

\* np.savez(mean_std_file, ...)
WriteMeanStd ==
    /\ pc = "savez"
    /\ files' = files \cup {"MeanStd.npz"}
    /\ pc' = "save"
    /\ UNCHANGED <<err, arrays, ret>>
    /\ LoopsUnchanged

\* the info file, then `if save_arrays:` with data_interim_path_local bound
\* nowhere
SaveArrays ==
    /\ pc = "save"
    /\ files' = files \cup {"info.txt"}
    /\ IF save_arrays
       THEN pc' = "error" /\ err' = "NameError"
       ELSE pc' = "return" /\ err' = err
    /\ UNCHANGED <<arrays, ret>>
    /\ LoopsUnchanged

\* the names returned, in order
Returned ==
    <<<<"norm_inputs", "tr">>, <<"norm_inputs", "val">>, <<"norm_inputs", "te">>,
      <<"norm_DelT", "tr">>, <<"norm_DelT", "val">>, <<"norm_DelT", "te">>,
      <<"norm_Temp", "tr">>, <<"norm_Temp", "val">>, <<"norm_Temp", "te">>,
      <<"orig", "tr">>, <<"orig", "val">>, <<"clim", "tr">>, <<"clim", "val">>>>

ReturnArrays ==
    /\ pc = "return"
    /\ ret' = [i \in DOMAIN Returned |->
                  [name |-> Returned[i], nrows |-> arrays[Returned[i]].nrows,
                   ncols |-> arrays[Returned[i]].ncols,
                   order |-> arrays[Returned[i]].order]]
    /\ pc' = "returned"
    /\ UNCHANGED <<err, arrays, files>>
    /\ LoopsUnchanged

Next ==
    \/ DefineRanges
    \/ Train_Region1 \/ Train_Region2 \/ Train_Region3
    \/ Val_Region1 \/ Val_Region2 \/ Val_Region3
    \/ Test_Region1 \/ Test_Region2 \/ Test_Region3
    \/ ShufflePools \/ PlotHistograms \/ NormaliseAll \/ WriteMeanStd
    \/ SaveArrays \/ ReturnArrays

\* runs over the grids: default ratios, both stencil ranks
Init ==
    /\ InitRun({RunVars(d, 1, 1, f) : d \in {2, 3}, f \in {NoFlags, AllFlags}},
               {DefaultRatios}, Grids, {data_end_index + 1})
    /\ save_arrays = FALSE
    /\ plot_histograms = FALSE

Spec == Init /\ [][Next]_vars

\* runs over the split ratios and step sizes, on the smallest grid
InitTime ==
    /\ InitRun({RunVars(2, s, 1, NoFlags) : s \in 1..MaxStep}, RatioPairs,
               {SmallGrid}, {data_end_index, data_end_index + 1})
    /\ save_arrays = FALSE
    /\ plot_histograms = FALSE

SpecTime == InitTime /\ [][Next]_vars

(***************************************************************************)
(* What a block holds: the original indices its rows are read at.          *)
(***************************************************************************)
\* original time index of the fields GetInputs was given (da_T[t, ...])
InputTime(b) == TimeOf("da_T", b.t)
\* da_T[t + StepSize, ...] and da_T[t, ...] of the targets
LaterTime(b) == TimeOf("da_T", TargetTime(b.t))
EarlierTime(b) == TimeOf("da_T", OrigTime(b.t))

InputBlocks(split) == acc[<<"inputs", split>>]
BlockSet(a) == {acc[a][i] : i \in 1..Len(acc[a])}

trainval_split == SplitIndex(trainval_split_ratio)
valtest_split == SplitIndex(valtest_split_ratio)

(***************************************************************************)
(* C1.  For every sample of every split the delta-temperature target is    *)
(* T(tau + StepSize) - T(tau) and the temperature target is                *)
(* T(tau + StepSize), tau being the original time index the sample's input *)
(* stencil was read at.                                                    *)
(***************************************************************************)
C1_TargetsOneStepAhead ==
    \A split \in Splits :
        \A i \in 1..Len(InputBlocks(split)) :
            LET tau == InputTime(InputBlocks(split)[i])
                d   == acc[<<"DelT", split>>][i]
                T   == acc[<<"Temp", split>>][i]
            IN  /\ LaterTime(d) = tau + run_vars.StepSize
                /\ EarlierTime(d) = tau
                /\ LaterTime(T) = tau + run_vars.StepSize

(***************************************************************************)
(* C3.  Every training sample was read at an original time index in        *)
(* [0, trainval_split), every validation sample in                         *)
(* [trainval_split, valtest_split), every test sample in                   *)
(* [valtest_split, data_end_index).                                        *)
(***************************************************************************)
SplitLow(split) ==
    IF split = "tr" THEN start
    ELSE IF split = "val" THEN trainval_split ELSE valtest_split
SplitHigh(split) ==
    IF split = "tr" THEN trainval_split
    ELSE IF split = "val" THEN valtest_split ELSE data_end_index

C3_SamplesInSplitWindow ==
    \A split \in Splits :
        \A b \in BlockSet(<<"inputs", split>>) :
            /\ SplitLow(split) <= InputTime(b)
            /\ InputTime(b) < SplitHigh(split)

(***************************************************************************)
(* C5.  The original time indices used as input times by the three splits  *)
(* are disjoint and ordered: every training time is before every           *)
(* validation time, and every validation time before every test time.      *)
(***************************************************************************)
Before(s1, s2) ==
    \A b1 \in BlockSet(<<"inputs", s1>>) :
        \A b2 \in BlockSet(<<"inputs", s2>>) : InputTime(b1) < InputTime(b2)

C5_SplitTimesOrdered ==
    Before("tr", "val") /\ Before("val", "te") /\ Before("tr", "te")

(***************************************************************************)
(* C6.  The three index sequences are stepped by the stride and cover      *)
(* [0, boundary1), [boundary1, boundary2) and [boundary2, total).  As      *)
(* stated, their union is the stride-stepped sequence 0, stride,           *)
(* 2 * stride, ... below data_end_index for every pair of ratios; as       *)
(* amended, it is so exactly when both boundaries are multiples of the     *)
(* stride, each sequence starting at its own lower boundary.               *)
(***************************************************************************)
\* s is lo, lo + stride, ... and stops with the last such index below hi
SteppedOver(s, lo, hi) ==
    /\ \A i \in 1..Len(s) : s[i] = lo + (i - 1) * subsample_rate /\ s[i] < hi
    /\ lo + Len(s) * subsample_rate >= hi

Elements(s) == {s[i] : i \in 1..Len(s)}
SplitIndices ==
    Elements(trainval_range) \cup Elements(valtest_range)
    \cup Elements(test_range)
UsableIndices ==
    {k * subsample_rate : k \in 0..((data_end_index - 1) \div subsample_rate)}

SequencesCoverWindows ==
    /\ SteppedOver(trainval_range, start, trainval_split)
    /\ SteppedOver(valtest_range, trainval_split, valtest_split)
    /\ SteppedOver(test_range, valtest_split, data_end_index)

WindowDepth == IF run_vars.dimension = 3 THEN 3 ELSE 1

InputZs(k) ==
    PySlice(ZIndex, InputZ(k, run_vars.dimension)[1],
            InputZ(k, run_vars.dimension)[2])
InputYs(k) == PySlice(YIndex("da_T"), InputY(k)[1], InputY(k)[2])
InputXs(k) == PySlice(XIndex(k), InputX(k)[1], InputX(k)[2])

\* position of row r in the (z, y, x) grid of window positions of region k
WindowAt(k, r) == Unravel(r, Len(InputYs(k)) - 2, Len(InputXs(k)) - 2)

\* original index read by window offset dz, dy, dx of row r of an inputs block
StencilZ(b, r, dz) == InputZs(b.reg)[WindowAt(b.reg, r)[1] + dz + 1]
StencilY(b, r, dy) == InputYs(b.reg)[WindowAt(b.reg, r)[2] + dy + 1]

\* the three original columns, West to East, under the window of row r, xs
\* being the sliced X axis: the window's X position is r modulo the number
\* of window positions along X
StencilColumns(xs, r) ==
    SubSeq(xs, (r % (Len(xs) - 2)) + 1, (r % (Len(xs) - 2)) + 3)
StencilX(b, r, dx) == StencilColumns(InputXs(b.reg), r)[dx + 1]

\* the centre of the stencil of row r
InputCentre(b, r) ==
    <<StencilZ(b, r, (WindowDepth - 1) \div 2), StencilY(b, r, 1),
      StencilX(b, r, 1)>>

TargetZs(k) == PySlice(ZIndex, TargetZ(k)[1], TargetZ(k)[2])
TargetYs(k) == PySlice(YIndex("da_T"), TargetY(k)[1], TargetY(k)[2])
TargetXs(k) == PySlice(XIndex(TargetAxis(k)), TargetX(k)[1], TargetX(k)[2])

\* original cell of row r of a target block (DelT, Temp, orig or clim)
TargetCell(b, r) ==
    LET i == Unravel(r, Len(TargetYs(b.reg)), Len(TargetXs(b.reg)))
    IN  <<TargetZs(b.reg)[i[1] + 1], TargetYs(b.reg)[i[2] + 1],
          TargetXs(b.reg)[i[3] + 1]>>

TargetCells(b) == {TargetCell(b, r) : r \in 0..(b.nrows - 1)}

(***************************************************************************)
(* C2.  For every sample of every region and timestep, the cell at which   *)
(* the target values (delta-temperature, temperature at t + step,          *)
(* temperature at t, climatology) are read is the centre of the sample's   *)
(* input stencil: feature row i and target row i describe the same cell.   *)
(***************************************************************************)
C2_TargetAtStencilCentre ==
    \A split \in Splits :
        \A i \in 1..Len(InputBlocks(split)) :
            \A kind \in Kinds(split) \ {"inputs"} :
                LET b  == InputBlocks(split)[i]
                    tb == acc[<<kind, split>>][i]
                IN  /\ b.nrows = tb.nrows
                    /\ \A r \in 0..(b.nrows - 1) :
                           InputCentre(b, r) = TargetCell(tb, r)

(***************************************************************************)
(* C4.  The sets of original grid cells used as forecast targets by the    *)
(* interior, west-wrap and east-wrap regions are pairwise disjoint.        *)
(***************************************************************************)
C4_TargetCellsDisjoint ==
    \A split \in Splits :
        \A i, j \in 1..Len(acc[<<"DelT", split>>]) :
            LET b1 == acc[<<"DelT", split>>][i]
                b2 == acc[<<"DelT", split>>][j]
            IN  (b1.t = b2.t /\ b1.reg < b2.reg)
                => TargetCells(b1) \cap TargetCells(b2) = {}

(***************************************************************************)
(* C8.  In a wrap region the three longitude columns of every stencil hold *)
(* original columns (c - 1) mod x_size, c, (c + 1) mod x_size, c being the *)
(* stencil's centre column: the west-wrap stencil, centred on the seam     *)
(* column 0, reads the last column as its western neighbour, and the       *)
(* east-wrap stencil centred on the last column reads column 0 as its      *)
(* eastern neighbour.                                                      *)
(***************************************************************************)
C8_WrapStencilColumns ==
    LET b == cur["inputs"]
        rows == 0..(b.nrows - 1)
    IN  b.reg \in {2, 3} =>
            \A xs \in {InputXs(b.reg)} :
                /\ \A r \in rows :
                       \A c \in {StencilColumns(xs, r)} :
                           /\ c[1] = (c[2] - 1) % x_size
                           /\ c[3] = (c[2] + 1) % x_size
                /\ b.reg = 2 =>
                       \A r \in rows :
                           \A c \in {StencilColumns(xs, r)} :
                               c[2] = 0 /\ c[1] = x_size - 1
                /\ b.reg = 3 =>
                       /\ \E r \in rows :
                              StencilColumns(xs, r)[2] = x_size - 1
                       /\ \A r \in rows :
                              \A c \in {StencilColumns(xs, r)} :
                                  c[2] = x_size - 1 => c[3] = 0

C8_Witness ==
    /\ cur["inputs"].reg = 3
    /\ pc = "val"
    /\ \E r \in 0..(cur["inputs"].nrows - 1) :
           /\ StencilX(cur["inputs"], r, 1) = x_size - 1
           /\ StencilX(cur["inputs"], r, 2) = 0

(***************************************************************************)
(* Runs over the feature flags, both stencil ranks and the polynomial      *)
(* degrees, on one grid.                                                   *)
(***************************************************************************)
FeatureRunVars ==
    {rv \in {RunVars(d, 1, p, f) :
                d \in {2, 3}, p \in 1..MaxPolyDegree, f \in Flags} :
        rv.poly_degree = 1 \/ LinearCols(rv) <= MaxPolyCols}

InitFeat ==
    /\ InitRun(FeatureRunVars, {DefaultRatios}, {WideGrid},
               {data_end_index + 1})
    /\ save_arrays = FALSE
    /\ plot_histograms = FALSE

SpecFeat == InitFeat /\ [][Next]_vars

(***************************************************************************)
(* C9.  Within one run every feature block returned by GetInputs has the   *)
(* same number of columns, whatever the region, timestep or split.         *)
(***************************************************************************)
C9_SameColumnCount ==
    \A split \in Splits :
        \A b \in BlockSet(<<"inputs", split>>) :
            b.ncols = cur["inputs"].ncols

C9_Witness ==
    /\ pc = "shuffle"
    /\ run_vars.eta /\ run_vars.current /\ run_vars.dimension = 3
    /\ \A split \in Splits :
           {b.reg : b \in BlockSet(<<"inputs", split>>)} = Regions

(***************************************************************************)
(* C10.  With poly_degree = 1 the number of feature columns is             *)
(* V * (1 + sal + 2 * current + 3 * bolus_vel + density) + E * eta + lat   *)
(* + lon + dep, V being 9 for dimension 2 and 27 for dimension 3 and E     *)
(* being 9; with poly_degree = d > 1 and n such columns it is the number   *)
(* of non-empty subsets of the n columns of size at most d.                *)
(***************************************************************************)
Count(flag) == IF flag THEN 1 ELSE 0

RECURSIVE Binomial(_, _)
Binomial(n, k) ==
    IF k = 0 THEN 1
    ELSE IF n < k THEN 0
    ELSE (Binomial(n - 1, k - 1) * n) \div k

RECURSIVE SubsetsUpTo(_, _)
SubsetsUpTo(n, d) ==
    IF d = 0 THEN 0 ELSE SubsetsUpTo(n, d - 1) + Binomial(n, d)

ClaimedLinearColumns ==
    (IF run_vars.dimension = 2 THEN 9 ELSE 27)
        * (1 + Count(run_vars.sal) + 2 * Count(run_vars.current)
           + 3 * Count(run_vars.bolus_vel) + Count(run_vars.density))
    + 9 * Count(run_vars.eta) + Count(run_vars.lat) + Count(run_vars.lon)
    + Count(run_vars.dep)

C10_ColumnCount ==
    cur["inputs"] # NoBlock =>
        cur["inputs"].ncols =
            IF run_vars.poly_degree > 1
            THEN SubsetsUpTo(ClaimedLinearColumns, run_vars.poly_degree)
            ELSE ClaimedLinearColumns

C10_Witness ==
    /\ cur["inputs"].reg = 3
    /\ run_vars.poly_degree = 2
    /\ run_vars.lat /\ run_vars.lon /\ run_vars.dep
    /\ cur["inputs"].ncols = 78

(***************************************************************************)
(* Normalisation.  Array values are integers, and the arithmetic is exact: *)
(* a rational is <<numerator, denominator>> in lowest terms, a standard    *)
(* deviation is held as its square, and a normalised value as its sign and *)
(* its square, or as the IEEE outcome of a division by zero.               *)
(***************************************************************************)
Abs(n) == IF n < 0 THEN -n ELSE n
Sign(n) == IF n < 0 THEN -1 ELSE IF n > 0 THEN 1 ELSE 0

RECURSIVE Gcd(_, _)
Gcd(a, b) == IF b = 0 THEN a ELSE Gcd(b, a % b)

Rat(n, d) == <<n \div Gcd(Abs(n), d), d \div Gcd(Abs(n), d)>>

RECURSIVE Sum(_)
Sum(a) == IF a = <<>> THEN 0 ELSE Head(a) + Sum(Tail(a))

RECURSIVE SumSq(_)
SumSq(a) == IF a = <<>> THEN 0 ELSE Head(a) * Head(a) + SumSq(Tail(a))

\* np.mean(a)
np_mean(a) == Rat(Sum(a), Len(a))

\* the sample standard deviation (divisor n - 1), as its square
np_std_sample(a) ==
    Rat(Len(a) * SumSq(a) - Sum(a) * Sum(a), Len(a) * (Len(a) - 1))

\* np.std(a), the population standard deviation, as its square
np_std(a) == Rat(Len(a) * SumSq(a) - Sum(a) * Sum(a), Len(a) * Len(a))

\* (x - mean) / std ** 2
StandardiseByVariance(x, mean, std) ==
    IF std[1] = 0
    THEN IF x * mean[2] = mean[1] THEN "nan"
         ELSE IF x * mean[2] > mean[1] THEN "inf" ELSE "-inf"
    ELSE [sgn |-> Sign(x * mean[2] - mean[1]),
          sq  |-> Rat((x * mean[2] - mean[1]) * (x * mean[2] - mean[1])
                          * std[2] * std[2],
                      mean[2] * mean[2] * std[1] * std[1])]

\* (x - mean) / std
Standardise(x, mean, std) ==
    IF std[1] = 0
    THEN IF x * mean[2] = mean[1] THEN "nan"
         ELSE IF x * mean[2] > mean[1] THEN "inf" ELSE "-inf"
    ELSE [sgn |-> Sign(x * mean[2] - mean[1]),
          sq  |-> Rat((x * mean[2] - mean[1]) * (x * mean[2] - mean[1])
                          * std[2],
                      mean[2] * mean[2] * std[1])]

StandardiseAll(a, mean, std) ==
    [i \in DOMAIN a |-> Standardise(a[i], mean, std)]

\* statistics taken over the three splits together
normalise_data_pooled(train, val, test) ==
    [norm_train |-> StandardiseAll(train, np_mean(train \o val \o test),
                                   np_std(train \o val \o test)),
     norm_val   |-> StandardiseAll(val, np_mean(train \o val \o test),
                                   np_std(train \o val \o test)),
     norm_test  |-> StandardiseAll(test, np_mean(train \o val \o test),
                                   np_std(train \o val \o test)),
     train_mean |-> np_mean(train \o val \o test),
     train_std  |-> np_std(train \o val \o test)]

normalise_data(train, val, test) ==
    [norm_train |-> StandardiseAll(train, np_mean(train), np_std(train)),
     norm_val   |-> StandardiseAll(val, np_mean(train), np_std(train)),
     norm_test  |-> StandardiseAll(test, np_mean(train), np_std(train)),
     train_mean |-> np_mean(train),
     train_std  |-> np_std(train)]

(***************************************************************************)
(* Two runs of the normalisation side by side.  A matrix is the sequence   *)
(* of its columns.  Both runs hold the same training pool; each has its    *)
(* own validation and test pools.                                          *)
(***************************************************************************)
Runs == {"a", "b"}

Zero == [sgn |-> 0, sq |-> <<0, 1>>]
Unbound == <<>>

\* np.zeros(shape) for a matrix shaped like m, and for a vector of n entries
ZerosLike(m) == [i \in DOMAIN m |-> [j \in DOMAIN m[i] |-> Zero]]
ZeroVector(n) == [i \in 1..n |-> <<0, 1>>]

TrainColumns == {<<0, 0>>, <<0, 2>>, <<1, 3>>}
LongTrainColumn == <<0, 1, 2>>
HeldOutColumns == {<<1>>, <<5>>, <<2, 4>>}

TrainPools ==
    {[inputs |-> <<c1, c2>>, DelT |-> d, Temp |-> tmp] :
        c1 \in TrainColumns, c2 \in TrainColumns,
        d \in TrainColumns, tmp \in TrainColumns}
    \cup {[inputs |-> <<LongTrainColumn, LongTrainColumn>>,
           DelT |-> LongTrainColumn, Temp |-> LongTrainColumn]}

HeldOutPools ==
    {[inputs |-> <<c, c>>, DelT |-> c, Temp |-> c] : c \in HeldOutColumns}

\* the arrays of a run on entry to the normalisation
Loaded(tr, val, te) ==
    [pc |-> "inputs", i |-> 0,
     inputs_tr |-> tr.inputs, inputs_val |-> val.inputs,
     inputs_te |-> te.inputs,
     outputs_tr_DelT |-> tr.DelT, outputs_val_DelT |-> val.DelT,
     outputs_te_DelT |-> te.DelT,
     outputs_tr_Temp |-> tr.Temp, outputs_val_Temp |-> val.Temp,
     outputs_te_Temp |-> te.Temp,
     inputs_mean |-> ZeroVector(Len(tr.inputs)),
     inputs_std |-> ZeroVector(Len(tr.inputs)),
     norm_inputs_tr |-> ZerosLike(tr.inputs),
     norm_inputs_val |-> ZerosLike(val.inputs),
     norm_inputs_te |-> ZerosLike(te.inputs),
     norm_outputs_tr_DelT |-> Unbound, norm_outputs_val_DelT |-> Unbound,
     norm_outputs_te_DelT |-> Unbound,
     outputs_DelT_mean |-> Unbound, outputs_DelT_std |-> Unbound,
     norm_outputs_tr_Temp |-> Unbound, norm_outputs_val_Temp |-> Unbound,
     norm_outputs_te_Temp |-> Unbound,
     outputs_Temp_mean |-> Unbound, outputs_Temp_std |-> Unbound,
     mean_std_file |-> Unbound]

InitNorm ==
    /\ run_vars = RunVars(2, 1, 1, NoFlags)
    /\ trainval_split_ratio = DefaultRatios[1]
    /\ valtest_split_ratio = DefaultRatios[2]
    /\ x_size = SmallGrid[1] /\ y_size = SmallGrid[2] /\ z_size = SmallGrid[3]
    /\ T_size = data_end_index + 1
    /\ pc = "normalise" /\ err = "" /\ t = 0 /\ region = 1
    /\ trainval_range = <<>> /\ valtest_range = <<>> /\ test_range = <<>>
    /\ sample_times = <<>>
    /\ cur = [kind \in Kinds("tr") |-> NoBlock]
    /\ acc = [a \in AccNames |-> <<>>]
    /\ bound = {}
    /\ save_arrays = FALSE /\ plot_histograms = FALSE
    /\ arrays = <<>> /\ files = {} /\ ret = <<>>
    /\ \E tr \in TrainPools :
           \E va, vb, ta, tb \in HeldOutPools :
               /\ va # vb /\ ta # tb
               /\ nrm = [r \in Runs |->
                            IF r = "a" THEN Loaded(tr, va, ta)
                            ELSE Loaded(tr, vb, tb)]

NormUnchanged ==
    UNCHANGED <<run_vars, trainval_split_ratio, valtest_split_ratio, x_size,
                y_size, z_size, T_size, pc, err, t, region, trainval_range,
                valtest_range, test_range, sample_times, cur, acc, bound,
                after_loops>>

\* one pass of the loop over the input features: column i (counted from 0)
NormaliseInputs(r) ==
    /\ pc = "normalise"
    /\ nrm[r].pc = "inputs"
    /\ LET n   == nrm[r]
           col == n.i + 1
           res == normalise_data(n.inputs_tr[col], n.inputs_val[col],
                                 n.inputs_te[col])
       IN  nrm' = [nrm EXCEPT ![r] =
                      [n EXCEPT !.norm_inputs_tr[col] = res.norm_train,
                                !.norm_inputs_val[col] = res.norm_val,
                                !.norm_inputs_te[col] = res.norm_test,
                                !.inputs_mean[col] = res.train_mean,
                                !.inputs_std[col] = res.train_std,
                                !.i = n.i + 1,
                                !.pc = IF n.i + 1 < Len(n.inputs_tr)
                                       THEN "inputs" ELSE "DelT"]]
    /\ NormUnchanged

NormaliseDelT(r) ==
    /\ pc = "normalise"
    /\ nrm[r].pc = "DelT"
    /\ LET n   == nrm[r]
           res == normalise_data(n.outputs_tr_DelT, n.outputs_val_DelT,
                                 n.outputs_te_DelT)
       IN  nrm' = [nrm EXCEPT ![r] =
                      [n EXCEPT !.norm_outputs_tr_DelT = res.norm_train,
                                !.norm_outputs_val_DelT = res.norm_val,
                                !.norm_outputs_te_DelT = res.norm_test,
                                !.outputs_DelT_mean = res.train_mean,
                                !.outputs_DelT_std = res.train_std,
                                !.pc = "Temp"]]
    /\ NormUnchanged

NormaliseTemp(r) ==
    /\ pc = "normalise"
    /\ nrm[r].pc = "Temp"
    /\ LET n   == nrm[r]
           res == normalise_data(n.outputs_tr_Temp, n.outputs_val_Temp,
                                 n.outputs_te_Temp)
       IN  nrm' = [nrm EXCEPT ![r] =
                      [n EXCEPT !.norm_outputs_tr_Temp = res.norm_train,
                                !.norm_outputs_val_Temp = res.norm_val,
                                !.norm_outputs_te_Temp = res.norm_test,
                                !.outputs_Temp_mean = res.train_mean,
                                !.outputs_Temp_std = res.train_std,
                                !.pc = "savez"]]
    /\ NormUnchanged

\* the record with every std in front of its mean
SaveStdMean(r) ==
    /\ pc = "normalise"
    /\ nrm[r].pc = "savez"
    /\ nrm' = [nrm EXCEPT ![r].mean_std_file =
                  <<nrm[r].inputs_std, nrm[r].inputs_mean,
                    nrm[r].outputs_DelT_std, nrm[r].outputs_DelT_mean,
                    nrm[r].outputs_Temp_std, nrm[r].outputs_Temp_mean>>,
                              ![r].pc = "done"]
    /\ NormUnchanged

\* np.savez(mean_std_file, ...)
SaveMeanStd(r) ==
    /\ pc = "normalise"
    /\ nrm[r].pc = "savez"
    /\ nrm' = [nrm EXCEPT ![r].mean_std_file =
                  <<nrm[r].inputs_mean, nrm[r].inputs_std,
                    nrm[r].outputs_DelT_mean, nrm[r].outputs_DelT_std,
                    nrm[r].outputs_Temp_mean, nrm[r].outputs_Temp_std>>,
                              ![r].pc = "done"]
    /\ NormUnchanged

NextNorm ==
    \E r \in Runs :
        \/ NormaliseInputs(r)
        \/ NormaliseDelT(r)
        \/ NormaliseTemp(r)
        \/ SaveMeanStd(r)

SpecNorm == InitNorm /\ [][NextNorm]_vars

(***************************************************************************)
(* C7.  Normalisation statistics do not depend on validation or test data: *)
(* two runs with equal training pools and different validation and test    *)
(* pools end with the same per-column input means and standard deviations, *)
(* the same target means and standard deviations and the same normalised   *)
(* training arrays.                                                        *)
(***************************************************************************)
TrainingPool(r) ==
    <<nrm[r].inputs_tr, nrm[r].outputs_tr_DelT, nrm[r].outputs_tr_Temp>>

HeldOutPool(r) ==
    <<nrm[r].inputs_val, nrm[r].outputs_val_DelT, nrm[r].outputs_val_Temp,
      nrm[r].inputs_te, nrm[r].outputs_te_DelT, nrm[r].outputs_te_Temp>>

Statistics(r) ==
    <<nrm[r].inputs_mean, nrm[r].inputs_std,
      nrm[r].outputs_DelT_mean, nrm[r].outputs_DelT_std,
      nrm[r].outputs_Temp_mean, nrm[r].outputs_Temp_std>>

NormalisedTraining(r) ==
    <<nrm[r].norm_inputs_tr, nrm[r].norm_outputs_tr_DelT,
      nrm[r].norm_outputs_tr_Temp>>

C7_StatsIndependentOfHeldOut ==
    (/\ nrm["a"].pc = "done" /\ nrm["b"].pc = "done"
     /\ TrainingPool("a") = TrainingPool("b")
     /\ HeldOutPool("a") # HeldOutPool("b"))
    => /\ Statistics("a") = Statistics("b")
       /\ nrm["a"].mean_std_file = nrm["b"].mean_std_file
       /\ NormalisedTraining("a") = NormalisedTraining("b")

C7_Witness ==
    /\ nrm["a"].pc = "done" /\ nrm["b"].pc = "done"
    /\ TrainingPool("a") = TrainingPool("b")
    /\ nrm["a"].inputs_val # nrm["b"].inputs_val
    /\ nrm["a"].outputs_te_DelT # nrm["b"].outputs_te_DelT
    /\ nrm["a"].norm_inputs_val # nrm["b"].norm_inputs_val
    /\ nrm["a"].inputs_std[1] # <<0, 1>>
    /\ nrm["a"].inputs_mean[1] # nrm["a"].inputs_mean[2]

(***************************************************************************)
(* C11.  For each of the three regions and every timestep of every split,  *)
(* the number of feature rows produced for the region equals               *)
(* (z_up - z_lw) * (y_up - y_lw) * (x_up - x_lw) for the region's bounds,  *)
(* with dimension 2 and with dimension 3.                                  *)
(***************************************************************************)
RegionCells(k) ==
    (Bounds(k).z_up - Bounds(k).z_lw) * (Bounds(k).y_up - Bounds(k).y_lw)
        * (Bounds(k).x_up - Bounds(k).x_lw)

C11_RegionRowCount ==
    /\ cur["inputs"] # NoBlock
           => cur["inputs"].nrows = RegionCells(cur["inputs"].reg)
    /\ \A split \in Splits :
           \A b \in BlockSet(<<"inputs", split>>) :
               b.nrows = RegionCells(b.reg)

(***************************************************************************)
(* Runs on grids smaller than the bounds of the wrap regions, and runs     *)
(* over the arguments save_arrays and plot_histograms.                     *)
(***************************************************************************)
ShortGrids == {<<4, 5, 3>>, <<5, 10, 20>>}

InitShort ==
    /\ InitRun({RunVars(d, 1, 1, NoFlags) : d \in {2, 3}}, {DefaultRatios},
               ShortGrids, {data_end_index + 1})
    /\ save_arrays = FALSE
    /\ plot_histograms = FALSE

SpecShort == InitShort /\ [][Next]_vars

InitArgs ==
    /\ InitRun({RunVars(d, 1, 1, NoFlags) : d \in {2, 3}}, {DefaultRatios},
               {SmallGrid}, {data_end_index + 1})
    /\ save_arrays \in BOOLEAN
    /\ plot_histograms \in BOOLEAN

SpecArgs == InitArgs /\ [][Next]_vars

(***************************************************************************)
(* C12.  For each split, the number of rows of the returned feature matrix *)
(* is the number of time indices of the split's range multiplied by the    *)
(* sum of the interior, west-wrap and east-wrap sample counts, and each    *)
(* returned target array of the split has the same number of rows and      *)
(* exactly one column.                                                     *)
(***************************************************************************)
RangeOf(split) ==
    IF split = "tr" THEN trainval_range
    ELSE IF split = "val" THEN valtest_range
    ELSE test_range

SamplesPerTimestep ==
    CallGetInputs(1).nrows + CallGetInputs(2).nrows + CallGetInputs(3).nrows

C12_ReturnedRowCounts ==
    pc = "returned" =>
        \A i \in DOMAIN ret :
            /\ ret[i].nrows = Len(RangeOf(ret[i].name[2])) * SamplesPerTimestep
            /\ ret[i].name[1] # "norm_inputs" => ret[i].ncols = 1

C12_Witness ==
    /\ pc = "returned"
    /\ Len(ret) = 13
    /\ Len(trainval_range) = 26 /\ Len(valtest_range) = 8 /\ Len(test_range) = 4
    /\ ret[1].nrows = 26 * (30 * 12 + 30 * 14 + 30 * 14 * 2)
    /\ ret[3].nrows = 4 * (30 * 12 + 30 * 14 + 30 * 14 * 2)
    /\ ret[13].name = <<"clim", "val">> /\ ret[13].ncols = 1
    /\ ret[1].ncols = 9

(***************************************************************************)
(* Runs over the values of run_vars["dimension"], 2 and 3 and the others.  *)
(***************************************************************************)
InitDim ==
    /\ InitRun({RunVars(d, 1, 1, f) : d \in (0..MaxDimension) \ {2, 3},
                                      f \in Flags}
               \cup {RunVars(d, 1, 1, NoFlags) : d \in {2, 3}},
               {DefaultRatios}, {WideGrid}, {data_end_index + 1})
    /\ save_arrays = FALSE
    /\ plot_histograms = FALSE

SpecDim == InitDim /\ [][Next]_vars

(***************************************************************************)
(* C13.  When run_vars["dimension"] is neither 2 nor 3 the extraction      *)
(* aborts with an error: GetInputs returns no feature array for any region *)
(* and ReadMITGCM accumulates nothing and never returns, whatever feature  *)
(* flags are enabled.                                                      *)
(***************************************************************************)
C13_UnsupportedDimensionAborts ==
    run_vars.dimension \notin {2, 3} =>
        /\ \A k \in Regions : CallGetInputs(k).err # ""
        /\ pc \in {"start", "tr", "error"}
        /\ cur["inputs"] = NoBlock
        /\ \A a \in AccNames : acc[a] = <<>>
        /\ arrays = <<>> /\ ret = <<>>
        /\ pc = "tr" => t = 0 /\ region = 1

C13_Witness ==
    /\ run_vars.dimension \notin {2, 3}
    /\ run_vars.eta /\ run_vars.dep /\ ~run_vars.sal
    /\ pc = "error"
    /\ err = "NameError"
    /\ CallGetInputs(1).err = "UnboundLocalError"

(***************************************************************************)
(* C19.  Before the shuffle every accumulator of a split is the            *)
(* concatenation, over the iterations of the split's loop in increasing    *)
(* order, of the interior block, the west-wrap block and the east-wrap     *)
(* block of the iteration, the time read never decreasing along it; the    *)
(* feature accumulator and every target and reference accumulator of the   *)
(* split hold their blocks in the same order.                              *)
(***************************************************************************)
LoopsDone == pc \in {"shuffle", "plot", "normalising", "savez", "save",
                     "return", "returned"}

C19_BlockOrder ==
    \A a \in AccNames :
        /\ \A i \in 1..Len(acc[a]) :
              /\ acc[a][i].reg = ((i - 1) % 3) + 1
              /\ acc[a][i].t = First(a[2]) + ((i - 1) \div 3)
        /\ \A i \in 1..(Len(acc[a]) - 1) :
              InputTime(acc[a][i]) <= InputTime(acc[a][i + 1])
        /\ \A i \in 1..Len(acc[a]) :
              /\ i <= Len(acc[<<"inputs", a[2]>>])
              /\ acc[<<"inputs", a[2]>>][i].reg = acc[a][i].reg
              /\ acc[<<"inputs", a[2]>>][i].t = acc[a][i].t
        /\ LoopsDone => Len(acc[a]) = 3 * Len(RangeOf(a[2]))

C19_Witness ==
    /\ pc = "shuffle"
    /\ Len(acc[<<"inputs", "tr">>]) >= 6
    /\ Len(acc[<<"clim", "val">>]) >= 6
    /\ Len(acc[<<"DelT", "te">>]) >= 6
    /\ acc[<<"DelT", "te">>][5].reg = 2
    /\ acc[<<"DelT", "te">>][5].t = N_tr + N_val + 1
    /\ acc[<<"orig", "val">>][3].reg = 3
    /\ acc[<<"orig", "val">>][4].t = N_tr + 1

(***************************************************************************)
(* C17.  Shuffling is split-local: the ordering a pool is indexed with is  *)
(* a permutation of the row indices of that pool, drawn for the split of   *)
(* the pool, so every pool holds after the shuffle as many samples as it   *)
(* held before it and none from another split.                             *)
(***************************************************************************)
Shuffled == pc \in {"plot", "normalising", "savez", "save", "return",
                    "returned"}

C17_ShuffleKeepsEveryPool ==
    Shuffled =>
        \A a \in AccNames :
            /\ arrays[a].order = <<"ordering", a[2]>>
            /\ arrays[a].nrows = Rows(acc[a])

(***************************************************************************)
(* The shuffle, the normalisation and the return with array values.        *)
(* np.random is NumPy's global generator: seed sets its state,             *)
(* permutation(n) shuffles arange(n) from the last index down, swapping    *)
(* index i with a draw from 0..i.  The Mersenne Twister behind it is       *)
(* replaced by a small linear congruential generator; what is kept is that *)
(* a draw is a function of the state and advances it.                      *)
(***************************************************************************)
RngModulus == 16
Seed == 5

\* the generator keeping the state it was in
np_random_keep(state, seed) == state

\* np.random.seed(seed)
np_random_seed(state, seed) == seed % RngModulus

RngAdvance(state) == (5 * state + 3) % RngModulus

Swap(a, i, j) == [a EXCEPT ![i] = a[j], ![j] = a[i]]

\* RandomState.shuffle on positions 0 .. i of a
RECURSIVE np_random_shuffle(_, _, _)
np_random_shuffle(a, i, state) ==
    IF i < 1 THEN [array |-> a, state |-> state]
    ELSE np_random_shuffle(Swap(a, i + 1, (RngAdvance(state) % (i + 1)) + 1),
                           i - 1, RngAdvance(state))

\* np.random.permutation(n)
np_random_permutation(n, state) == np_random_shuffle(Iota(n), n - 1, state)

\* a[ordering] for a one-dimensional a, and for a matrix held by its columns
Take(a, ordering) == [i \in DOMAIN ordering |-> a[ordering[i] + 1]]
TakeRows(m, ordering) == [c \in DOMAIN m |-> Take(m[c], ordering)]

\* the pools of a run when the loops are over: orig is the temperature the
\* step started from, clim a climatology value of the row's own
Staged(tr, val, te, state) ==
    [pc |-> "shuffle", err |-> "", rng |-> state,
     dataset |-> <<tr, val, te>>,
     ordering_tr |-> Unbound, ordering_val |-> Unbound,
     ordering_te |-> Unbound,
     orig_tr_Temp |-> [i \in DOMAIN tr.Temp |-> tr.Temp[i] - tr.DelT[i]],
     orig_val_Temp |-> [i \in DOMAIN val.Temp |-> val.Temp[i] - val.DelT[i]],
     clim_tr_Temp |-> Iota(Len(tr.Temp)),
     clim_val_Temp |-> Iota(Len(val.Temp)),
     returned |-> Unbound]
    @@ Loaded(tr, val, te)

\* lines 1691-1711
Shuffle(r) ==
    /\ pc = "normalise"
    /\ nrm[r].pc = "shuffle"
    /\ LET n  == nrm[r]
           p1 == np_random_permutation(Len(n.inputs_tr[1]),
                                       np_random_seed(n.rng, Seed))
           p2 == np_random_permutation(Len(n.inputs_val[1]), p1.state)
           p3 == np_random_permutation(Len(n.inputs_te[1]), p2.state)
       IN  nrm' = [nrm EXCEPT ![r] =
              [n EXCEPT
                 !.rng = p3.state,
                 !.ordering_tr = p1.array,
                 !.ordering_val = p2.array,
                 !.ordering_te = p3.array,
                 !.inputs_tr = TakeRows(n.inputs_tr, p1.array),
                 !.outputs_tr_DelT = Take(n.outputs_tr_DelT, p1.array),
                 !.outputs_tr_Temp = Take(n.outputs_tr_Temp, p1.array),
                 !.orig_tr_Temp = Take(n.orig_tr_Temp, p1.array),
                 !.clim_tr_Temp = Take(n.clim_tr_Temp, p1.array),
                 !.inputs_val = TakeRows(n.inputs_val, p2.array),
                 !.outputs_val_DelT = Take(n.outputs_val_DelT, p2.array),
                 !.outputs_val_Temp = Take(n.outputs_val_Temp, p2.array),
                 !.orig_val_Temp = Take(n.orig_val_Temp, p2.array),
                 !.clim_val_Temp = Take(n.clim_val_Temp, p2.array),
                 !.inputs_te = TakeRows(n.inputs_te, p3.array),
                 !.outputs_te_DelT = Take(n.outputs_te_DelT, p3.array),
                 !.outputs_te_Temp = Take(n.outputs_te_Temp, p3.array),
                 !.pc = "plot"]]
    /\ NormUnchanged

\* lines 1713-1741: plt.savefig(figs_path + ...), figs_path bound nowhere
Plot(r) ==
    /\ pc = "normalise"
    /\ nrm[r].pc = "plot"
    /\ nrm' = [nrm EXCEPT ![r].pc = IF plot_histograms THEN "error"
                                    ELSE "inputs",
                          ![r].err = IF plot_histograms THEN "NameError"
                                     ELSE ""]
    /\ NormUnchanged

\* lines 1901-1988: the writes to info_file, and with save_arrays the file
\* names built from data_interim_path_local, bound nowhere
Save(r) ==
    /\ pc = "normalise"
    /\ nrm[r].pc = "done"
    /\ nrm' = [nrm EXCEPT ![r].pc = IF save_arrays THEN "error" ELSE "return",
                          ![r].err = IF save_arrays THEN "NameError" ELSE ""]
    /\ NormUnchanged

\* lines 1998-2012
Return(r) ==
    /\ pc = "normalise"
    /\ nrm[r].pc = "return"
    /\ nrm' = [nrm EXCEPT ![r].pc = "returned",
                          ![r].returned =
                  <<nrm[r].norm_inputs_tr, nrm[r].norm_inputs_val,
                    nrm[r].norm_inputs_te, nrm[r].norm_outputs_tr_DelT,
                    nrm[r].norm_outputs_val_DelT,
                    nrm[r].norm_outputs_te_DelT,
                    nrm[r].norm_outputs_tr_Temp,
                    nrm[r].norm_outputs_val_Temp,
                    nrm[r].norm_outputs_te_Temp,
                    nrm[r].orig_tr_Temp, nrm[r].orig_val_Temp,
                    nrm[r].clim_tr_Temp, nrm[r].clim_val_Temp>>]
    /\ NormUnchanged

NextPipe ==
    \E r \in DOMAIN nrm :
        \/ Shuffle(r)
        \/ Plot(r)
        \/ NormaliseInputs(r)
        \/ NormaliseDelT(r)
        \/ NormaliseTemp(r)
        \/ SaveMeanStd(r)
        \/ Save(r)
        \/ Return(r)

InitStaged(flags) ==
    /\ run_vars = RunVars(2, 1, 1, NoFlags)
    /\ trainval_split_ratio = DefaultRatios[1]
    /\ valtest_split_ratio = DefaultRatios[2]
    /\ x_size = SmallGrid[1] /\ y_size = SmallGrid[2] /\ z_size = SmallGrid[3]
    /\ T_size = data_end_index + 1
    /\ pc = "normalise" /\ err = "" /\ t = 0 /\ region = 1
    /\ trainval_range = <<>> /\ valtest_range = <<>> /\ test_range = <<>>
    /\ sample_times = <<>>
    /\ cur = [kind \in Kinds("tr") |-> NoBlock]
    /\ acc = [a \in AccNames |-> <<>>]
    /\ bound = {}
    /\ save_arrays \in flags /\ plot_histograms \in flags
    /\ arrays = <<>> /\ files = {} /\ ret = <<>>

InitPipe ==
    /\ InitStaged(BOOLEAN)
    /\ \E tr \in TrainPools, val, te \in HeldOutPools :
           nrm = [r \in {"a"} |-> Staged(tr, val, te, 0)]

SpecPipe == InitPipe /\ [][NextPipe]_vars

(***************************************************************************)
(* Two runs side by side, each on pools of its own, the generator left in  *)
(* a different state before each.                                          *)
(***************************************************************************)
UniformTrainPools ==
    {[inputs |-> <<c, c>>, DelT |-> c, Temp |-> c] :
        c \in TrainColumns \cup {LongTrainColumn}}

InitDet ==
    /\ InitStaged({FALSE})
    /\ \E ta, tb \in UniformTrainPools :
           \E va, vb, ea, eb \in HeldOutPools :
               nrm = [r \in Runs |->
                         IF r = "a" THEN Staged(ta, va, ea, 0)
                         ELSE Staged(tb, vb, eb, 9)]

SpecDet == InitDet /\ [][NextPipe]_vars

(***************************************************************************)
(* C18.  Determinism: two runs on the same dataset with the same           *)
(* configuration draw the same three orderings and return the same arrays; *)
(* the orderings depend on nothing but the seed 5 and the row counts of    *)
(* the train, validation and test pools, in the order they are drawn.      *)
(***************************************************************************)
RowCounts(r) ==
    <<Len(nrm[r].inputs_tr[1]), Len(nrm[r].inputs_val[1]),
      Len(nrm[r].inputs_te[1])>>

Orderings(r) ==
    <<nrm[r].ordering_tr, nrm[r].ordering_val, nrm[r].ordering_te>>

C18_Determinism ==
    /\ (/\ nrm["a"].pc # "shuffle" /\ nrm["b"].pc # "shuffle"
        /\ RowCounts("a") = RowCounts("b"))
       => Orderings("a") = Orderings("b")
    /\ (/\ nrm["a"].pc # "shuffle" /\ nrm["b"].pc # "shuffle"
        /\ nrm["a"].dataset = nrm["b"].dataset)
       => /\ TrainingPool("a") = TrainingPool("b")
          /\ HeldOutPool("a") = HeldOutPool("b")
    /\ (/\ nrm["a"].pc = "returned" /\ nrm["b"].pc = "returned"
        /\ nrm["a"].dataset = nrm["b"].dataset)
       => /\ nrm["a"].returned = nrm["b"].returned
          /\ nrm["a"].mean_std_file = nrm["b"].mean_std_file

C18_Witness ==
    /\ nrm["a"].pc = "returned" /\ nrm["b"].pc = "returned"
    /\ nrm["a"].dataset = nrm["b"].dataset
    /\ nrm["a"].ordering_tr = <<2, 1, 0>>
    /\ nrm["a"].ordering_val = <<1, 0>>
    /\ nrm["b"].returned[12] = <<2, 1, 0>>
    /\ nrm["b"].returned[1] # ZerosLike(nrm["b"].inputs_tr)

(***************************************************************************)
(* C14.  normalise_data(train, val, test) returns the mean and the         *)
(* population standard deviation of train and (X - mean) / std for X =     *)
(* train, val and test with that one mean and std; it is applied to every  *)
(* feature column and to each of the two targets separately, so that the   *)
(* normalised values of a column depend on that column only.               *)
(***************************************************************************)
RECURSIVE SquaredDeviations(_, _)
SquaredDeviations(a, m) ==
    IF a = <<>> THEN 0
    ELSE (Head(a) * m[2] - m[1]) * (Head(a) * m[2] - m[1])
         + SquaredDeviations(Tail(a), m)

\* m is the arithmetic mean of a
IsMean(m, a) == m[2] > 0 /\ m[1] * Len(a) = Sum(a) * m[2]

\* v is the mean of the squared deviations of a from m
IsPopulationVariance(v, a, m) ==
    v[2] > 0 /\ v[1] * m[2] * m[2] * Len(a) = v[2] * SquaredDeviations(a, m)

\* y is (x - m) / sqrt(v)
IsQuotient(y, x, m, v) ==
    IF v[1] = 0 THEN y \in {"nan", "inf", "-inf"}
    ELSE /\ y.sgn = Sign(x * m[2] - m[1])
         /\ y.sq[1] * v[1] * m[2] * m[2]
                = y.sq[2] * v[2] * (x * m[2] - m[1]) * (x * m[2] - m[1])

IsNormalised(ys, xs, m, v) ==
    /\ DOMAIN ys = DOMAIN xs
    /\ \A i \in DOMAIN xs : IsQuotient(ys[i], xs[i], m, v)

Normalises(tr, val, te, ntr, nval, nte, m, v) ==
    /\ IsMean(m, tr)
    /\ IsPopulationVariance(v, tr, m)
    /\ IsNormalised(ntr, tr, m, v)
    /\ IsNormalised(nval, val, m, v)
    /\ IsNormalised(nte, te, m, v)

C14_NormaliseData ==
    \A n \in {nrm["a"]} :
        /\ \A c \in 1..n.i :
              Normalises(n.inputs_tr[c], n.inputs_val[c], n.inputs_te[c],
                         n.norm_inputs_tr[c], n.norm_inputs_val[c],
                         n.norm_inputs_te[c], n.inputs_mean[c],
                         n.inputs_std[c])
        /\ \A c \in (n.i + 1)..Len(n.inputs_tr) :
              /\ n.norm_inputs_tr[c] = [j \in DOMAIN n.inputs_tr[c] |-> Zero]
              /\ n.inputs_mean[c] = <<0, 1>>
        /\ \A c, d \in 1..n.i :
              (/\ n.inputs_tr[c] = n.inputs_tr[d]
               /\ n.inputs_val[c] = n.inputs_val[d]
               /\ n.inputs_te[c] = n.inputs_te[d])
              => /\ n.norm_inputs_tr[c] = n.norm_inputs_tr[d]
                 /\ n.norm_inputs_val[c] = n.norm_inputs_val[d]
                 /\ n.norm_inputs_te[c] = n.norm_inputs_te[d]
        /\ n.outputs_DelT_std # Unbound =>
              Normalises(n.outputs_tr_DelT, n.outputs_val_DelT,
                         n.outputs_te_DelT, n.norm_outputs_tr_DelT,
                         n.norm_outputs_val_DelT, n.norm_outputs_te_DelT,
                         n.outputs_DelT_mean, n.outputs_DelT_std)
        /\ n.outputs_Temp_std # Unbound =>
              Normalises(n.outputs_tr_Temp, n.outputs_val_Temp,
                         n.outputs_te_Temp, n.norm_outputs_tr_Temp,
                         n.norm_outputs_val_Temp, n.norm_outputs_te_Temp,
                         n.outputs_Temp_mean, n.outputs_Temp_std)

C14_Witness ==
    /\ nrm["a"].pc = "returned"
    /\ nrm["a"].inputs_mean = <<<<1, 1>>, <<2, 1>>>>
    /\ nrm["a"].inputs_std = <<<<1, 1>>, <<1, 1>>>>
    /\ nrm["a"].outputs_DelT_std = <<1, 1>>
    /\ nrm["a"].inputs_val[1] = <<2, 4>>
    /\ nrm["a"].norm_inputs_val[1] =
           <<[sgn |-> 1, sq |-> <<1, 1>>], [sgn |-> 1, sq |-> <<9, 1>>]>>
    /\ nrm["a"].norm_inputs_val[2][1] = Zero
    /\ nrm["a"].norm_outputs_te_DelT[1].sgn = -1

(***************************************************************************)
(* C15.  Round trip: for every feature column and both targets, and for    *)
(* the train, validation and test arrays alike, normalised * std + mean    *)
(* with the returned statistics is the array that was handed to            *)
(* normalise_data, whenever the training std is not zero.                  *)
(***************************************************************************)
\* the root of a perfect square, and -1 for any other number
PerfectRoot(n) ==
    LET roots == {k \in 0..Max(n, 0) : k * k = n}
    IN  IF roots = {} THEN -1 ELSE CHOOSE k \in roots : TRUE

\* y * std + mean as a rational, y held as its sign and square and std as
\* its square; <<0, 0>> when the product is no rational
Denormalise(y, mean, std) ==
    LET square == Rat(y.sq[1] * std[1], y.sq[2] * std[2])
        num    == PerfectRoot(square[1])
        den    == PerfectRoot(square[2])
    IN  IF num < 0 \/ den < 1 THEN <<0, 0>>
        ELSE Rat(y.sgn * num * mean[2] + mean[1] * den, den * mean[2])

RoundTrips(ys, xs, mean, std) ==
    /\ DOMAIN ys = DOMAIN xs
    /\ \A i \in DOMAIN xs : Denormalise(ys[i], mean, std) = <<xs[i], 1>>

C15_RoundTrip ==
    \A n \in {nrm["a"]} :
        /\ \A c \in 1..n.i :
              n.inputs_std[c][1] # 0 =>
                  /\ RoundTrips(n.norm_inputs_tr[c], n.inputs_tr[c],
                                n.inputs_mean[c], n.inputs_std[c])
                  /\ RoundTrips(n.norm_inputs_val[c], n.inputs_val[c],
                                n.inputs_mean[c], n.inputs_std[c])
                  /\ RoundTrips(n.norm_inputs_te[c], n.inputs_te[c],
                                n.inputs_mean[c], n.inputs_std[c])
        /\ (n.outputs_DelT_std # Unbound /\ n.outputs_DelT_std # <<0, 1>>) =>
              /\ RoundTrips(n.norm_outputs_tr_DelT, n.outputs_tr_DelT,
                            n.outputs_DelT_mean, n.outputs_DelT_std)
              /\ RoundTrips(n.norm_outputs_val_DelT, n.outputs_val_DelT,
                            n.outputs_DelT_mean, n.outputs_DelT_std)
              /\ RoundTrips(n.norm_outputs_te_DelT, n.outputs_te_DelT,
                            n.outputs_DelT_mean, n.outputs_DelT_std)
        /\ (n.outputs_Temp_std # Unbound /\ n.outputs_Temp_std # <<0, 1>>) =>
              /\ RoundTrips(n.norm_outputs_tr_Temp, n.outputs_tr_Temp,
                            n.outputs_Temp_mean, n.outputs_Temp_std)
              /\ RoundTrips(n.norm_outputs_val_Temp, n.outputs_val_Temp,
                            n.outputs_Temp_mean, n.outputs_Temp_std)
              /\ RoundTrips(n.norm_outputs_te_Temp, n.outputs_te_Temp,
                            n.outputs_Temp_mean, n.outputs_Temp_std)

C15_Witness ==
    /\ nrm["a"].pc = "returned"
    /\ nrm["a"].inputs_std[1] = <<2, 3>>
    /\ nrm["a"].outputs_Temp_std = <<2, 3>>
    /\ nrm["a"].inputs_mean[2] = <<1, 1>>
    /\ nrm["a"].inputs_te[1] = <<5>>
    /\ nrm["a"].norm_inputs_te[1] = <<[sgn |-> 1, sq |-> <<24, 1>>]>>
    /\ nrm["a"].norm_inputs_tr[1][1].sgn = 1
    /\ Denormalise(nrm["a"].norm_inputs_tr[1][3], <<1, 1>>, <<2, 3>>)
           = <<0, 1>>

(***************************************************************************)
(* C16.  When a training feature column or a training target has zero      *)
(* variance the normalisation does not raise and the run goes on to the    *)
(* end and returns; the normalised values of that column or target are     *)
(* non-finite in the three splits and every other column is normalised as  *)
(* usual.                                                                  *)
(***************************************************************************)
IsConstant(a) == \A i, j \in DOMAIN a : a[i] = a[j]

NonFinite(ys) == \A i \in DOMAIN ys : ys[i] \in {"nan", "inf", "-inf"}

ReachedNormalisation(n) ==
    \/ n.pc \in {"inputs", "DelT", "Temp", "savez", "done", "return",
                 "returned"}
    \/ n.pc = "error" /\ n.mean_std_file # Unbound

HasZeroVariance(n) ==
    \/ \E c \in DOMAIN n.inputs_tr : IsConstant(n.inputs_tr[c])
    \/ IsConstant(n.outputs_tr_DelT)
    \/ IsConstant(n.outputs_tr_Temp)

\* the normalised arrays of a column or target whose training values are xs
ZeroVarianceOutcome(xs, ntr, nval, nte, vtr, vval, vte, m, v) ==
    IF IsConstant(xs)
    THEN NonFinite(ntr) /\ NonFinite(nval) /\ NonFinite(nte)
    ELSE Normalises(xs, vval, vte, ntr, nval, nte, m, v) /\ v[1] # 0

ZeroVarianceOutcomes(n) ==
    /\ \A c \in 1..n.i :
          ZeroVarianceOutcome(n.inputs_tr[c], n.norm_inputs_tr[c],
                              n.norm_inputs_val[c], n.norm_inputs_te[c],
                              n.inputs_tr[c], n.inputs_val[c],
                              n.inputs_te[c], n.inputs_mean[c],
                              n.inputs_std[c])
    /\ n.outputs_DelT_std # Unbound =>
          ZeroVarianceOutcome(n.outputs_tr_DelT, n.norm_outputs_tr_DelT,
                              n.norm_outputs_val_DelT,
                              n.norm_outputs_te_DelT, n.outputs_tr_DelT,
                              n.outputs_val_DelT, n.outputs_te_DelT,
                              n.outputs_DelT_mean, n.outputs_DelT_std)
    /\ n.outputs_Temp_std # Unbound =>
          ZeroVarianceOutcome(n.outputs_tr_Temp, n.norm_outputs_tr_Temp,
                              n.norm_outputs_val_Temp,
                              n.norm_outputs_te_Temp, n.outputs_tr_Temp,
                              n.outputs_val_Temp, n.outputs_te_Temp,
                              n.outputs_Temp_mean, n.outputs_Temp_std)

C16_ZeroVarianceRunReturns ==
    \A n \in {nrm["a"]} :
        (ReachedNormalisation(n) /\ HasZeroVariance(n)) =>
            /\ n.pc # "error"
            /\ ZeroVarianceOutcomes(n)

(***************************************************************************)
(* C20.  Every run that reaches the normalisation writes, with save_arrays *)
(* set or not, one statistics record holding inputs_mean, inputs_std, the  *)
(* DelT mean and std and the Temp mean and std in this order, where        *)
(* inputs_mean[i] and inputs_std[i] are the values column i of the train,  *)
(* validation and test feature matrices was normalised with; no statistic  *)
(* changes once it is computed.                                            *)
(***************************************************************************)
PastSavez(n) ==
    \/ n.pc \in {"done", "return", "returned"}
    \/ n.pc = "error" /\ n.i > 0

RecordMatches(n) ==
    /\ n.mean_std_file =
           <<n.inputs_mean, n.inputs_std, n.outputs_DelT_mean,
             n.outputs_DelT_std, n.outputs_Temp_mean, n.outputs_Temp_std>>
    /\ Len(n.mean_std_file[1]) = Len(n.inputs_tr)
    /\ \A c \in DOMAIN n.inputs_tr :
          /\ n.norm_inputs_tr[c] =
                 StandardiseAll(n.inputs_tr[c], n.mean_std_file[1][c],
                                n.mean_std_file[2][c])
          /\ n.norm_inputs_val[c] =
                 StandardiseAll(n.inputs_val[c], n.mean_std_file[1][c],
                                n.mean_std_file[2][c])
          /\ n.norm_inputs_te[c] =
                 StandardiseAll(n.inputs_te[c], n.mean_std_file[1][c],
                                n.mean_std_file[2][c])
    /\ n.norm_outputs_tr_DelT =
           StandardiseAll(n.outputs_tr_DelT, n.mean_std_file[3],
                          n.mean_std_file[4])
    /\ n.norm_outputs_tr_Temp =
           StandardiseAll(n.outputs_tr_Temp, n.mean_std_file[5],
                          n.mean_std_file[6])

StatisticsKept(r) ==
    /\ \A c \in 1..nrm[r].i :
          /\ nrm'[r].inputs_mean[c] = nrm[r].inputs_mean[c]
          /\ nrm'[r].inputs_std[c] = nrm[r].inputs_std[c]
    /\ nrm[r].outputs_DelT_std # Unbound =>
          /\ nrm'[r].outputs_DelT_mean = nrm[r].outputs_DelT_mean
          /\ nrm'[r].outputs_DelT_std = nrm[r].outputs_DelT_std
    /\ nrm[r].outputs_Temp_std # Unbound =>
          /\ nrm'[r].outputs_Temp_mean = nrm[r].outputs_Temp_mean
          /\ nrm'[r].outputs_Temp_std = nrm[r].outputs_Temp_std
    /\ nrm[r].mean_std_file # Unbound =>
          nrm'[r].mean_std_file = nrm[r].mean_std_file

C20_StatisticsRecord ==
    /\ [](/\ PastSavez(nrm["a"]) <=> nrm["a"].mean_std_file # Unbound
          /\ PastSavez(nrm["a"]) => RecordMatches(nrm["a"]))
    /\ [][StatisticsKept("a")]_vars

C20_Witness ==
    /\ save_arrays
    /\ nrm["a"].pc = "error"
    /\ nrm["a"].returned = Unbound
    /\ Len(nrm["a"].mean_std_file) = 6
    /\ nrm["a"].mean_std_file[1] = <<<<1, 1>>, <<2, 1>>>>
    /\ nrm["a"].mean_std_file[2] = <<<<1, 1>>, <<1, 1>>>>
    /\ nrm["a"].mean_std_file[3] = <<0, 1>>
    /\ nrm["a"].mean_std_file[6] = <<1, 1>>
    /\ nrm["a"].norm_inputs_te[2][1].sq = <<9, 1>>

(***************************************************************************)
(* C21.  With save_arrays set, a run that reaches the persistence step     *)
(* writes the nine normalised arrays (features, DelT targets and Temp      *)
(* targets of train, validation and test), compresses the three test       *)
(* files, and returns the 13 arrays it returns with save_arrays unset.     *)
(***************************************************************************)
SavedFiles ==
    {"InputsTr.npy", "InputsVal.npy", "InputsTe.npy.gz",
     "OutputsDelTTr.npy", "OutputsDelTVal.npy", "OutputsDelTTe.npy.gz",
     "OutputsTempTr.npy", "OutputsTempVal.npy", "OutputsTempTe.npy.gz"}

PastPersistence == "info.txt" \in files

C21_SaveArraysPersistsAndReturns ==
    (save_arrays /\ PastPersistence) =>
        /\ pc \in {"return", "returned"}
        /\ SavedFiles \subseteq files
        /\ pc = "returned" => Len(ret) = Len(Returned)

(***************************************************************************)
(* C22.  A run in which the time index of a sample, or the later index it  *)
(* is paired with, lies beyond the end of the time series fails with an    *)
(* IndexError and returns nothing; and in no run is a target computed from *)
(* a time slice other than the one at the original index t + StepSize, t   *)
(* being the original index the sample was read at.                        *)
(***************************************************************************)
BeyondSeries ==
    \E i \in 1..Len(sample_times) :
        sample_times[i][1] >= T_size \/ sample_times[i][2] >= T_size

C22_NoSubstitutedTimeSlice ==
    /\ (pc # "start" /\ BeyondSeries) =>
           pc = "error" /\ err = "IndexError" /\ ret = <<>>
    /\ \A a \in {"DelT", "Temp"} \X Splits :
           \A i \in 1..Len(acc[a]) :
               LaterTime(acc[a][i])
                   = InputTime(acc[<<"inputs", a[2]>>][i]) + run_vars.StepSize

(***************************************************************************)
(* C23.  Every physical-field block of a sample's feature vector           *)
(* (temperature, salinity, U, V, the three bolus terms, density, surface   *)
(* height) is read at the original time index the sample's temperature     *)
(* block is read at; so is the density block, which comes from the         *)
(* separate density dataset.                                               *)
(***************************************************************************)
EnabledFields ==
    {"da_T"}
    \cup (IF run_vars.sal THEN {"da_S"} ELSE {})
    \cup (IF run_vars.current THEN {"da_U", "da_V"} ELSE {})
    \cup (IF run_vars.bolus_vel THEN {"da_Kwx", "da_Kwy", "da_Kwz"} ELSE {})
    \cup (IF run_vars.density THEN {"density"} ELSE {})
    \cup (IF run_vars.eta THEN {"da_Eta"} ELSE {})

C23_FieldsReadAtOneTime ==
    \A split \in Splits :
        \A i \in 1..Len(InputBlocks(split)) :
            \A f \in EnabledFields :
                TimeOf(f, InputBlocks(split)[i].t)
                    = InputTime(InputBlocks(split)[i])

(***************************************************************************)
(* The depth layers and the latitude rows under the window of a row of an  *)
(* inputs block, zs and ys being the sliced Z and Y axes handed to         *)
(* GetInputs and ny, nx the numbers of window positions along Y and X.     *)
(***************************************************************************)
\* a window one layer deep whatever the stencil rank
StencilLayersFlat(zs, ny, nx, r) ==
    SubSeq(zs, (r \div (ny * nx)) + 1, (r \div (ny * nx)) + 1)

StencilLayers(zs, ny, nx, r) ==
    SubSeq(zs, (r \div (ny * nx)) + 1, (r \div (ny * nx)) + WindowDepth)

StencilRows(ys, ny, nx, r) ==
    SubSeq(ys, ((r \div nx) % ny) + 1, ((r \div nx) % ny) + 3)

(***************************************************************************)
(* C24.  With dimension = 2 every depth-resolved field contributes 9       *)
(* values to a sample, all of the sample's own depth layer, and there is   *)
(* one layer of samples per depth layer of the slice handed over; with     *)
(* dimension = 3 every field contributes 27 values, of the layers z - 1,   *)
(* z and z + 1, and there are two layers of samples fewer than layers      *)
(* handed over.  The rows are in row-major (depth, latitude, longitude)    *)
(* order of the centre cells.                                              *)
(***************************************************************************)
DepthFields == EnabledFields \ {"da_Eta"}

ValuesPerField == IF run_vars.dimension = 2 THEN 9 ELSE 27

\* the layers that are the centre of a sample
CentreLayers(zs) ==
    IF run_vars.dimension = 2 THEN zs ELSE SubSeq(zs, 2, Len(zs) - 1)

C24_StencilDepthAndRowOrder ==
    cur["inputs"].reg \in Regions =>
        \A zs \in {InputZs(cur["inputs"].reg)} :
        \A ys \in {InputYs(cur["inputs"].reg)} :
        \A xs \in {InputXs(cur["inputs"].reg)} :
        \A nz \in {Len(CentreLayers(zs))} :
        \A ny \in {Len(ys) - 2} :
        \A nx \in {Len(xs) - 2} :
            /\ cur["inputs"].nrows = nz * ny * nx
            /\ nz = IF run_vars.dimension = 2 THEN Len(zs) ELSE Len(zs) - 2
            /\ cur["inputs"].ncols =
                   Cardinality(DepthFields) * ValuesPerField
                   + Count(run_vars.eta) * 9 + Count(run_vars.lat)
                   + Count(run_vars.lon) + Count(run_vars.dep)
            /\ \A iz \in 0..(nz - 1) :
               \A iy \in 0..(ny - 1) :
               \A ix \in 0..(nx - 1) :
               \A r \in {(iz * ny + iy) * nx + ix} :
               \A z \in {CentreLayers(zs)[iz + 1]} :
                   /\ StencilLayers(zs, ny, nx, r) =
                          IF run_vars.dimension = 2 THEN <<z>>
                          ELSE <<z - 1, z, z + 1>>
                   /\ StencilRows(ys, ny, nx, r)[2] = ys[iy + 2]
                   /\ StencilColumns(xs, r)[2] = xs[ix + 2]

C24_Witness ==
    /\ run_vars.dimension = 3
    /\ run_vars.sal /\ run_vars.density
    /\ cur["inputs"].reg = 3
    /\ pc = "te"
    /\ cur["inputs"].nrows = 30 * 14 * 2
    /\ cur["inputs"].ncols = 8 * 27 + 9 + 3
    /\ StencilLayers(InputZs(3), 14, 2, 839) = <<29, 30, 31>>
    /\ StencilRows(InputYs(3), 14, 2, 839)[2] = 14
    /\ StencilLayers(InputZs(3), 14, 2, 27) = <<0, 1, 2>>

(***************************************************************************)
(* The surface-height block: view_as_windows(Eta, (3, 3), 1) tiled over    *)
(* the nz sample layers and reshaped with the other blocks.  The window of *)
(* row r, as the original rows and the original columns it covers.         *)
(***************************************************************************)
\* np.repeat in the place of np.tile: every window nz times in a row
EtaWindowRepeated(ys, xs, nz, ny, nx, r) ==
    <<SubSeq(ys, ((r \div nz) \div nx) + 1, ((r \div nz) \div nx) + 3),
      SubSeq(xs, ((r \div nz) % nx) + 1, ((r \div nz) % nx) + 3)>>

EtaWindow(ys, xs, nz, ny, nx, r) ==
    <<SubSeq(ys, ((r % (ny * nx)) \div nx) + 1, ((r % (ny * nx)) \div nx) + 3),
      SubSeq(xs, ((r % (ny * nx)) % nx) + 1, ((r % (ny * nx)) % nx) + 3)>>

(***************************************************************************)
(* C25.  With eta enabled, two samples of one GetInputs call that have the *)
(* same (latitude, longitude) centre and lie in different depth layers     *)
(* have the same surface-height block, and that block is the 3x3 window of *)
(* Eta centred on the (latitude, longitude) cell of the sample, for        *)
(* dimension 2 and for dimension 3.                                        *)
(***************************************************************************)
C25_EtaSharedAcrossDepth ==
    (cur["inputs"].reg \in Regions /\ run_vars.eta) =>
        \A zs \in {InputZs(cur["inputs"].reg)} :
        \A ys \in {InputYs(cur["inputs"].reg)} :
        \A xs \in {InputXs(cur["inputs"].reg)} :
        \A nz \in {Len(CentreLayers(zs))} :
        \A ny \in {Len(ys) - 2} :
        \A nx \in {Len(xs) - 2} :
            \A iy \in 0..(ny - 1) :
            \A ix \in 0..(nx - 1) :
            \A surface \in {EtaWindow(ys, xs, nz, ny, nx, iy * nx + ix)} :
                /\ surface[1] = <<ys[iy + 2] - 1, ys[iy + 2], ys[iy + 2] + 1>>
                /\ surface[2] = <<(xs[ix + 2] - 1) % x_size, xs[ix + 2],
                                  (xs[ix + 2] + 1) % x_size>>
                /\ \A iz \in 0..(nz - 1) :
                   \A r \in {(iz * ny + iy) * nx + ix} :
                       /\ StencilRows(ys, ny, nx, r)[2] = ys[iy + 2]
                       /\ StencilColumns(xs, r)[2] = xs[ix + 2]
                       /\ EtaWindow(ys, xs, nz, ny, nx, r) = surface

C25_Witness ==
    /\ run_vars.eta
    /\ run_vars.dimension = 3
    /\ cur["inputs"].reg = 2
    /\ cur["inputs"].nrows = 30 * 14
    /\ x_size = 5
    /\ EtaWindow(InputYs(2), InputXs(2), 30, 14, 1, 15) = <<<<1, 2, 3>>, <<4, 0, 1>>>>
    /\ EtaWindow(InputYs(2), InputXs(2), 30, 14, 1, 407) = <<<<1, 2, 3>>, <<4, 0, 1>>>>
    /\ StencilLayers(InputZs(2), 14, 1, 15) # StencilLayers(InputZs(2), 14, 1, 407)

(***************************************************************************)
(* The coordinate arguments of the GetInputs call of region k, as lists of *)
(* original indices, and the value each holds in row r of its column.      *)
(***************************************************************************)
LatArg(k) == PySlice(YIndex("da_lat"), TargetY(k)[1], TargetY(k)[2])
\* da_lon[x_lw:x_up] in the place of da_lon2 and da_lon3
LonArgUnshifted(k) == PySlice(XIndex(1), TargetX(k)[1], TargetX(k)[2])
LonArg(k) == PySlice(XIndex(k), TargetX(k)[1], TargetX(k)[2])
DepthArg(k) == PySlice(ZIndex, TargetZ(k)[1], TargetZ(k)[2])

\* lat tiled over (z_subsize, ., x_subsize), lon over (z_subsize,
\* y_subsize, .), depth over (., y_subsize, x_subsize)
LatColumn(lat, ny, nx, r) == lat[((r \div nx) % ny) + 1]
LonColumn(lon, ny, nx, r) == lon[(r % nx) + 1]
DepthColumn(depth, ny, nx, r) == depth[(r \div (ny * nx)) + 1]

(***************************************************************************)
(* C26.  For each enabled coordinate the lat, lon and depth columns of the *)
(* sample whose stencil is centred on cell (z, y, x) hold the latitude of  *)
(* row y, the longitude of column x and the depth of layer z of the        *)
(* original grid, each constant along the other two axes, in the three     *)
(* regions; in a wrap region the longitude is that of the original,        *)
(* unshifted centre column.                                                *)
(***************************************************************************)
C26_CoordinateColumns ==
    cur["inputs"].reg \in Regions =>
        \A zs \in {InputZs(cur["inputs"].reg)} :
        \A ys \in {InputYs(cur["inputs"].reg)} :
        \A xs \in {InputXs(cur["inputs"].reg)} :
        \A lat \in {LatArg(cur["inputs"].reg)} :
        \A lon \in {LonArg(cur["inputs"].reg)} :
        \A depth \in {DepthArg(cur["inputs"].reg)} :
        \A nz \in {Len(CentreLayers(zs))} :
        \A ny \in {Len(ys) - 2} :
        \A nx \in {Len(xs) - 2} :
            \A iz \in 0..(nz - 1) :
            \A iy \in 0..(ny - 1) :
            \A ix \in 0..(nx - 1) :
            \A r \in {(iz * ny + iy) * nx + ix} :
                /\ StencilLayers(zs, ny, nx, r)[(WindowDepth + 1) \div 2]
                       = CentreLayers(zs)[iz + 1]
                /\ StencilRows(ys, ny, nx, r)[2] = ys[iy + 2]
                /\ StencilColumns(xs, r)[2] = xs[ix + 2]
                /\ run_vars.lat =>
                       LatColumn(lat, ny, nx, r) = ys[iy + 2]
                /\ run_vars.lon =>
                       /\ LonColumn(lon, ny, nx, r) = xs[ix + 2]
                       /\ cur["inputs"].reg = 2 =>
                              LonColumn(lon, ny, nx, r) = 0
                       /\ cur["inputs"].reg = 3 =>
                              LonColumn(lon, ny, nx, r) = x_size - 2 + ix
                /\ run_vars.dep =>
                       DepthColumn(depth, ny, nx, r) = CentreLayers(zs)[iz + 1]

C26_Witness ==
    /\ run_vars.lat /\ run_vars.lon /\ run_vars.dep
    /\ run_vars.dimension = 3
    /\ cur["inputs"].reg = 3
    /\ x_size = 5
    /\ cur["inputs"].nrows = 30 * 14 * 2
    /\ LonArg(3) = <<3, 4>>
    /\ LonColumn(LonArg(3), 14, 2, 57) = 4
    /\ LatColumn(LatArg(3), 14, 2, 57) = 1
    /\ DepthColumn(DepthArg(3), 14, 2, 57) = 3
    /\ StencilColumns(InputXs(3), 57) = <<3, 4, 0>>

(***************************************************************************)
(* C27.  Within a split one permutation is applied to the feature matrix,  *)
(* to the two target arrays and, for train and validation, to the orig and *)
(* clim reference arrays, so that row i of every returned array of the     *)
(* split belongs to one (region, timestep, cell) sample; reference arrays  *)
(* are returned for train and validation and never for test.               *)
(***************************************************************************)
FeatureSample(b, r) == <<b.reg, b.t, InputCentre(b, r)>>
TargetSample(b, r) == <<b.reg, b.t, TargetCell(b, r)>>

ReturnedNames == {ret[i].name : i \in DOMAIN ret}

C27_ReturnedRowsOfOneSample ==
    pc = "returned" =>
        /\ \A i \in DOMAIN ret :
               ret[i].order = <<"ordering", ret[i].name[2]>>
        /\ {"orig", "clim"} \X {"tr", "val"} \subseteq ReturnedNames
        /\ ReturnedNames \cap ({"orig", "clim"} \X {"te"}) = {}
        /\ \A a \in AccNames :
               \A i \in 1..Len(acc[a]) :
                   \A b \in {acc[<<"inputs", a[2]>>][i]} :
                       /\ b.nrows = acc[a][i].nrows
                       /\ a[1] # "inputs" =>
                              \A r \in 0..(b.nrows - 1) :
                                  FeatureSample(b, r)
                                      = TargetSample(acc[a][i], r)

(***************************************************************************)
(* C28.  No time slice of the dataset read while the samples of one split  *)
(* are built, as an input time or as a target time, is read while the      *)
(* samples of another split are built: the later slice of the last         *)
(* training pair is not the input slice of the first validation sample,    *)
(* and likewise between validation and test.                               *)
(***************************************************************************)
SlicesRead(split) ==
    UNION {{InputTime(b), EarlierTime(b), LaterTime(b)} :
               b \in BlockSet(<<"DelT", split>>)
                         \cup BlockSet(<<"inputs", split>>)}

C28_SplitsShareNoTimeSlice ==
    /\ SlicesRead("tr") \cap SlicesRead("val") = {}
    /\ SlicesRead("val") \cap SlicesRead("te") = {}
    /\ SlicesRead("tr") \cap SlicesRead("te") = {}

(***************************************************************************)
(* C29.  After every append, in every split, the feature accumulator and   *)
(* each target and reference accumulator of the split have the same number *)
(* of rows, on every grid on which the extraction does not raise, the      *)
(* grids smaller than the bounds of the wrap regions included.             *)
(***************************************************************************)
C29_AccumulatorsOfEqualLength ==
    pc # "error" =>
        \A a \in AccNames :
            /\ Len(acc[a]) = Len(acc[<<"inputs", a[2]>>])
            /\ Rows(acc[a]) = Rows(acc[<<"inputs", a[2]>>])

(***************************************************************************)
(* C30.  The accumulators of a split are initialised exactly once, by the  *)
(* interior block of the first timestep of the split, before anything is   *)
(* appended to them: no append reads an accumulator that is not bound, and *)
(* no later block replaces an accumulator instead of extending it, so the  *)
(* blocks of earlier timesteps and regions are all kept.                   *)
(***************************************************************************)
\* the accumulator is left alone
Kept(a) == acc'[a] = acc[a] /\ (a \in bound') = (a \in bound)

\* the accumulator is bound to the interior block of the split's first pass
Initialised(a) ==
    /\ a \notin bound /\ a \in bound'
    /\ acc[a] = <<>>
    /\ Len(acc'[a]) = 1
    /\ acc'[a][1].reg = 1
    /\ acc'[a][1].t = First(a[2])

\* one block is put behind the blocks the accumulator holds
Extended(a) ==
    /\ a \in bound /\ a \in bound'
    /\ Len(acc'[a]) = Len(acc[a]) + 1
    /\ SubSeq(acc'[a], 1, Len(acc[a])) = acc[a]

BoundOnce ==
    /\ err # "NameError"
    /\ \A a \in AccNames :
           /\ a \in bound <=> acc[a] # <<>>
           /\ a \in bound =>
                  acc[a][1].reg = 1 /\ acc[a][1].t = First(a[2])

C30_AccumulatorsInitialisedOnce ==
    /\ []BoundOnce
    /\ [][\A a \in AccNames : Kept(a) \/ Initialised(a) \/ Extended(a)]_vars

C30_Witness ==
    /\ pc = "te"
    /\ N_val >= 2
    /\ Len(acc[<<"inputs", "tr">>]) = 3 * N_tr
    /\ Len(acc[<<"clim", "val">>]) = 3 * N_val
    /\ Len(acc[<<"DelT", "te">>]) >= 4
    /\ acc[<<"DelT", "te">>][1].t = N_tr + N_val
    /\ acc[<<"DelT", "te">>][4].t = N_tr + N_val + 1

====
